---- MODULE Spec2Model ----
(***************************************************************************)
(* A model of the wordnet-editor mutation engine (WordnetEditor in         *)
(* src/src/wordnet_editor/editor.py), its store (db.py), its edit history  *)
(* (history.py), its relation catalog (relations.py) and the part of its   *)
(* importer (importer.py) that stores lexicons, synsets, entries, senses   *)
(* and synset relations.                                                   *)
(*                                                                         *)
(* The store is modelled twice: disk is what has been committed, db is     *)
(* what the editor's single connection sees (committed rows plus the       *)
(* writes of the open transaction).  COMMIT copies db to disk, ROLLBACK    *)
(* copies disk to db.  Rows reference each other by business key; the      *)
(* ON DELETE CASCADE foreign keys of db.py are applied by the Delete*      *)
(* operators below, so no row ever references a missing parent.            *)
(***************************************************************************)
EXTENDS Integers, Sequences, FiniteSets, Bags, TLC

VARIABLES
    disk,           \* the committed store
    db,             \* the store as the editor's connection sees it
    in_batch,       \* WordnetEditor._in_batch
    batch_depth,    \* WordnetEditor._batch_depth
    batch_base,     \* the committed store when the outermost batch was opened
    last            \* the last call and the exception it raised

vars == <<disk, db, in_batch, batch_depth, batch_base, last>>

(***************************************************************************)
(* Bounds of the model.                                                    *)
(***************************************************************************)
MaxHist == 5        \* rows of edit_history after which no new call is started
MaxDepth == 2       \* nesting depth of batch() scopes
MaxRelCalls == 3    \* rows the calls of SpecRel add to edit_history
MaxSenseCalls == 4  \* rows the calls of SpecSense add to edit_history
MaxIliCalls == 4    \* rows the calls of SpecIli add to edit_history
MaxLexCalls == 5    \* rows of edit_history in SpecLex
MaxFormCalls == 4   \* rows the calls of SpecForm add to edit_history
MaxPairCalls == 2   \* calls in a behaviour of SpecPair
MaxMergeCalls == 3  \* rows the calls of SpecMerge add to edit_history
MaxSplitCalls == 2  \* rows the calls of SpecSplit add to edit_history
MaxGroups == 2      \* groups in the sense_groups of a call of SpecSplit
MaxDelCalls == 3    \* rows the calls of SpecDel add to edit_history
MaxEntryCalls == 4  \* rows the calls of SpecEntry add to edit_history
MaxOrder == 3       \* ids in the list given to reorder_senses
MaxOrderCalls == 1  \* rows the calls of SpecOrder add to edit_history
MaxDupCalls == 3    \* rows the calls of SpecDup add to edit_history
MaxDefCalls == 3      \* calls of SpecDef
MaxAutoCalls == 3     \* calls of SpecAuto
MaxVerCalls == 4    \* rows the calls of SpecVer add to edit_history

(***************************************************************************)
(* Input alphabets.                                                        *)
(***************************************************************************)
LexIds == {"a", "b"}
Versions == {"1", "2"}
Bare == ""          \* version part of a lexicon reference given as a bare id
None == [none |-> TRUE]     \* an optional id argument left out
NULL == [null |-> TRUE]     \* no row found
NoIli == "None"             \* the ili argument left out
NullIli == "NULL"           \* an SQL NULL in synsets.ili_rowid

\* A lexicon reference as callers pass it: the bare id, or "id:version".
LexRefs == [id : LexIds, version : Versions \cup {Bare}]
BareRef(l) == [id |-> l, version |-> Bare]

(***************************************************************************)
(* The relation catalog (relations.py), restricted to a few kinds of each  *)
(* shape: an asymmetric pair, a symmetric kind, a kind without inverse.    *)
(***************************************************************************)
SYNSET_RELATION_INVERSES ==
    [k \in {"hypernym", "hyponym", "similar"} |->
        CASE k = "hypernym" -> "hyponym"
          [] k = "hyponym" -> "hypernym"
          [] k = "similar" -> "similar"]

SENSE_RELATION_INVERSES ==
    [k \in {"metaphor", "has_metaphor", "antonym"} |->
        CASE k = "metaphor" -> "has_metaphor"
          [] k = "has_metaphor" -> "metaphor"
          [] k = "antonym" -> "antonym"]

SYNSET_RELATIONS == {"hypernym", "hyponym", "similar", "also"}
SENSE_RELATIONS == {"metaphor", "has_metaphor", "antonym", "also"}

is_valid_synset_relation(k) == k \in SYNSET_RELATIONS
is_valid_sense_relation(k) == k \in SENSE_RELATIONS

(***************************************************************************)
(* The store.                                                              *)
(*   lexicons          rows [id, version]                                  *)
(*   synsets           rows [id, lexicon, pos, ili]; id = [pfx, n, pos]    *)
(*   proposed_ilis     ids of the synsets that have a proposed ILI         *)
(*   unlexicalized_synsets  ids of the synsets carrying the mark           *)
(*   ilis              ids of the ILI rows                                 *)
(*   entries           rows [id, lexicon, pos]; id = [pfx, lemma, pos, n]  *)
(*   senses            rows [id, lexicon, entry, synset, entry_rank,       *)
(*                     synset_rank]                                        *)
(*   synset_relations, sense_relations                                     *)
(*                     rows [lexicon, source, kind, target, noinv]; noinv  *)
(*                     records that the row was inserted by an add call    *)
(*                     with auto_inverse = False                           *)
(*   relation_types    kinds that have a row in relation_types             *)
(*   definitions       bag of [lexicon, synset, text]                      *)
(*   forms             bag of [entry, form, script, rank]                  *)
(*   edit_history      bag of [entity_type, operation]                     *)
(***************************************************************************)
EmptyDb ==
    [lexicons |-> {}, synsets |-> {}, proposed_ilis |-> {},
     unlexicalized_synsets |-> {}, ilis |-> {}, entries |-> {},
     senses |-> {}, synset_relations |-> {}, sense_relations |-> {},
     relation_types |-> {}, definitions |-> EmptyBag, forms |-> EmptyBag,
     edit_history |-> EmptyBag]

\* The outcome of a call: the connection's view when the call ended, the
\* exception it raised ("none" when it returned) and whether the call itself
\* ended the connection's transaction ("commit", "rollback" or "none").
Return(d) == [db |-> d, err |-> "none", txn |-> "none"]
Raise(d, e) == [db |-> d, err |-> e, txn |-> "none"]

SetMax(S) == CHOOSE x \in S : \A y \in S : y <= x

HistRows(d) == BagCardinality(d.edit_history)

(***************************************************************************)
(* history.py: one row per record_* call.                                  *)
(***************************************************************************)
HistRow(t, o) == [entity_type |-> t, operation |-> o]
record_create(d, t) ==
    [d EXCEPT !.edit_history = @ (+) SetToBag({HistRow(t, "CREATE")})]
\* record_update writing over a row of the entity type instead of adding one
record_update_in_place(d, t) ==
    LET old == {h \in BagToSet(d.edit_history) : h.entity_type = t}
        h == CHOOSE x \in old : TRUE
    IN IF old = {} THEN d
       ELSE [d EXCEPT !.edit_history =
                (@ (-) SetToBag({h})) (+) SetToBag({HistRow(t, "UPDATE")})]

record_update(d, t) ==
    [d EXCEPT !.edit_history = @ (+) SetToBag({HistRow(t, "UPDATE")})]
record_delete(d, t) ==
    [d EXCEPT !.edit_history = @ (+) SetToBag({HistRow(t, "DELETE")})]

\* record_delete once for every element of the set S
RECURSIVE record_deletes(_, _, _)
record_deletes(d, t, S) ==
    IF S = {} THEN d
    ELSE LET x == CHOOSE y \in S : TRUE
         IN record_deletes(record_delete(d, t), t, S \ {x})

(***************************************************************************)
(* db.py: lookups by business key.                                         *)
(***************************************************************************)
VerRank(v) == CASE v = "1" -> 1 [] v = "2" -> 2 [] OTHER -> 0

\* get_lexicon_rowid / get_lexicon_row: the specifier first, then the bare
\* id; of several rows with the bare id the UNIQUE (id, version) index
\* yields the one with the lowest version.
get_lexicon_row(d, ref) ==
    LET byspec == {l \in d.lexicons : ref.version # Bare /\ l.id = ref.id
                                      /\ l.version = ref.version}
        byid == {l \in d.lexicons : ref.version = Bare /\ l.id = ref.id}
    IN IF byspec # {} THEN CHOOSE l \in byspec : TRUE
       ELSE IF byid # {}
            THEN CHOOSE l \in byid :
                     \A m \in byid : VerRank(l.version) <= VerRank(m.version)
            ELSE NULL

get_synset_row(d, id) ==
    IF \E s \in d.synsets : s.id = id
    THEN CHOOSE s \in d.synsets : s.id = id ELSE NULL
get_entry_row(d, id) ==
    IF \E e \in d.entries : e.id = id
    THEN CHOOSE e \in d.entries : e.id = id ELSE NULL
get_sense_row(d, id) ==
    IF \E x \in d.senses : x.id = id
    THEN CHOOSE x \in d.senses : x.id = id ELSE NULL

\* get_or_create_ili, get_or_create_relation_type: INSERT OR IGNORE
get_or_create_ili(d, ili) == [d EXCEPT !.ilis = @ \cup {ili}]
get_or_create_relation_type(d, k) ==
    [d EXCEPT !.relation_types = @ \cup {k}]

(***************************************************************************)
(* db.py, the schema: DELETE of parent rows with the ON DELETE CASCADE     *)
(* foreign keys of the child tables.                                       *)
(***************************************************************************)
BagKeepSynsets(b, S) == [r \in {x \in BagToSet(b) : x.synset \notin S} |-> b[r]]
BagKeepEntries(b, E) == [r \in {x \in BagToSet(b) : x.entry \notin E} |-> b[r]]
BagKeepLexicons(b, L) == [r \in {x \in BagToSet(b) : x.lexicon \notin L} |-> b[r]]

\* DELETE FROM senses for the sense ids X
DeleteSenseRows(d, X) ==
    [d EXCEPT
        !.senses = {x \in @ : x.id \notin X},
        !.sense_relations =
            {r \in @ : r.source \notin X /\ r.target \notin X}]

\* DELETE FROM synsets without the cascade to synset_relations
DeleteSynsetRows_keep_relations(d, S) ==
    LET d1 == [d EXCEPT
                !.synsets = {s \in @ : s.id \notin S},
                !.proposed_ilis = @ \ S,
                !.unlexicalized_synsets = @ \ S,
                !.definitions = BagKeepSynsets(@, S)]
    IN DeleteSenseRows(d1, {x.id : x \in {y \in d.senses : y.synset \in S}})

\* DELETE FROM synsets for the synset ids S
DeleteSynsetRows(d, S) ==
    LET d1 == [d EXCEPT
                !.synsets = {s \in @ : s.id \notin S},
                !.proposed_ilis = @ \ S,
                !.unlexicalized_synsets = @ \ S,
                !.synset_relations =
                    {r \in @ : r.source \notin S /\ r.target \notin S},
                !.definitions = BagKeepSynsets(@, S)]
    IN DeleteSenseRows(d1, {x.id : x \in {y \in d.senses : y.synset \in S}})

\* DELETE FROM entries for the entry ids E
DeleteEntryRows(d, E) ==
    LET d1 == [d EXCEPT
                !.entries = {e \in @ : e.id \notin E},
                !.forms = BagKeepEntries(@, E)]
    IN DeleteSenseRows(d1, {x.id : x \in {y \in d.senses : y.entry \in E}})

\* DELETE FROM lexicons for the lexicon rows L
DeleteLexiconRows(d, L) ==
    LET d1 == [d EXCEPT
                !.lexicons = @ \ L,
                !.synset_relations = {r \in @ : r.lexicon \notin L},
                !.sense_relations = {r \in @ : r.lexicon \notin L},
                !.definitions = BagKeepLexicons(@, L)]
        d2 == DeleteSenseRows(d1,
                {x.id : x \in {y \in d.senses : y.lexicon \in L}})
        d3 == DeleteSynsetRows(d2,
                {s.id : s \in {y \in d.synsets : y.lexicon \in L}})
    IN DeleteEntryRows(d3,
                {e.id : e \in {y \in d.entries : y.lexicon \in L}})

(***************************************************************************)
(* editor.py: lexicons.                                                    *)
(***************************************************************************)
create_lexicon(d, id, version) ==
    IF \E l \in d.lexicons : l.id = id /\ l.version = version
    THEN Raise(d, "DuplicateEntityError")
    ELSE Return(record_create(
            [d EXCEPT !.lexicons = @ \cup {[id |-> id, version |-> version]}],
            "lexicon"))

\* DELETE FROM lexicons WHERE id = lexicon_id compares the bare id column
\* with the argument as given: a specifier matches no row.
delete_lexicon(d, ref) ==
    IF get_lexicon_row(d, ref) = NULL
    THEN Raise(d, "EntityNotFoundError")
    ELSE Return(DeleteLexiconRows(record_delete(d, "lexicon"),
            {l \in d.lexicons : ref.version = Bare /\ l.id = ref.id}))

(***************************************************************************)
(* editor.py: synsets.  A synset id "{prefix}-{NNNNNNNN}-{pos}" is the     *)
(* record [pfx, n, pos]: pfx is the text before the counter, written as    *)
(* the lexicon reference it spells, n is the counter.                      *)
(***************************************************************************)
VALID_POS == {"n", "v"}
MinIliDefinition == 20

SynsetId(pfx, n, pos) == [pfx |-> pfx, n |-> n, pos |-> pos]

\* _generate_synset_id: one more than the largest counter among the ids of
\* the lexicon's synsets that start with the prefix as the caller wrote it.
generate_synset_id(d, ref, lex, pos) ==
    LET used == {s.id.n : s \in {y \in d.synsets :
                                    y.lexicon = lex /\ y.id.pfx = ref}}
    IN SynsetId(ref, IF used = {} THEN 1 ELSE SetMax(used) + 1, pos)

create_synset(d, ref, pos, text, id, ili, ili_definition, lexicalized) ==
    LET lex == get_lexicon_row(d, ref)
        sid == IF id = None THEN generate_synset_id(d, ref, lex, pos) ELSE id
        d1 == IF ili # NoIli /\ ili # "in" THEN get_or_create_ili(d, ili) ELSE d
        d2 == [d1 EXCEPT !.synsets = @ \cup
                  {[id |-> sid, lexicon |-> lex, pos |-> pos,
                    ili |-> IF ili # NoIli /\ ili # "in" THEN ili ELSE NullIli]}]
        d3 == IF ili = "in"
              THEN [d2 EXCEPT !.proposed_ilis = @ \cup {sid}] ELSE d2
        d4 == IF ~lexicalized
              THEN [d3 EXCEPT !.unlexicalized_synsets = @ \cup {sid}] ELSE d3
        d5 == [d4 EXCEPT !.definitions = @ (+) SetToBag(
                  {[lexicon |-> lex, synset |-> sid, text |-> text]})]
    IN IF pos \notin VALID_POS THEN Raise(d, "ValidationError")
       ELSE IF lex = NULL THEN Raise(d, "EntityNotFoundError")
       ELSE IF id # None /\ id.pfx # ref THEN Raise(d, "ValidationError")
       ELSE IF get_synset_row(d, sid) # NULL
            THEN Raise(d, "DuplicateEntityError")
       ELSE IF ili = "in" /\ ~ili_definition.given
            THEN Raise(d1, "ValidationError")
       ELSE IF ili = "in" /\ ili_definition.len < MinIliDefinition
            THEN Raise(d1, "ValidationError")
       ELSE Return(record_create(d5, "synset"))

delete_synset(d, synset_id, cascade) ==
    LET row == get_synset_row(d, synset_id)
        own == {x.id : x \in {y \in d.senses : y.synset = synset_id}}
        d1 == IF cascade THEN record_deletes(d, "sense", own) ELSE d
    IN IF row = NULL THEN Raise(d, "EntityNotFoundError")
       ELSE IF own # {} /\ ~cascade THEN Raise(d, "RelationError")
       ELSE Return(DeleteSynsetRows(record_delete(d1, "synset"), {synset_id}))

(***************************************************************************)
(* editor.py: entries.  An entry id "{prefix}-{normalized}-{pos}" or       *)
(* "{prefix}-{normalized}-{pos}-{n}" is the record [pfx, lemma, pos, n],   *)
(* with n = 1 for the id without a suffix.                                 *)
(***************************************************************************)
EntryId(pfx, lemma, pos, n) ==
    [pfx |-> pfx, lemma |-> lemma, pos |-> pos, n |-> n]

\* lemma.lower(), spaces to "_", other punctuation dropped, "" to "entry"
normalized(lemma) ==
    CASE lemma = "Cat" -> "cat"
      [] lemma = "foo bar" -> "foo_bar"
      [] lemma = "!" -> "entry"
      [] OTHER -> lemma

\* An entry id "{prefix}-{normalized}-{pos}-{text}" given by a caller, with
\* a text that is not a numeral as the editor writes it, is the record
\* [pfx, lemma, pos, text]; the texts are "02", "\u00b2" (superscript two,
\* written sup2) and "2x".
SuffixTexts == {"02", "sup2", "2x"}
TextEntryId(pfx, lemma, pos, text) ==
    [pfx |-> pfx, lemma |-> lemma, pos |-> pos, text |-> text]

\* str.isdigit of a suffix text
isdigit(text) == text \in {"02", "sup2"}

\* int of a suffix text for which isdigit holds: "02" is 2, and int raises
\* ValueError for the superscript
int_raises(text) == text = "sup2"
int(text) == CASE text = "02" -> 2

RECURSIVE first_free(_, _)
first_free(n, used) == IF n \in used THEN first_free(n + 1, used) ELSE n

\* _generate_entry_id: the base id when it is free, else the base with the
\* smallest number from 2 on that is not in existing_suffixes; rows are the
\* entries whose id starts with "{base}-", and every suffix of theirs that
\* isdigit accepts goes through int into existing_suffixes.
generate_entry_id(d, ref, lemma, pos) ==
    LET base == EntryId(ref, normalized(lemma), pos, 1)
        rows == {y \in d.entries :
                    /\ y.id.pfx = ref /\ y.id.lemma = normalized(lemma)
                    /\ y.id.pos = pos /\ y.id # base}
        numbers == {y.id.n : y \in {z \in rows : "n" \in DOMAIN z.id}}
        digits == {t \in {y.id.text : y \in {z \in rows :
                                                "text" \in DOMAIN z.id}} :
                     isdigit(t)}
        existing_suffixes == numbers \cup {int(t) : t \in digits}
    IN IF get_entry_row(d, base) = NULL
       THEN [id |-> base, err |-> "none"]
       ELSE IF \E t \in digits : int_raises(t)
            THEN [id |-> base, err |-> "ValueError"]
       ELSE [id |-> EntryId(ref, normalized(lemma), pos,
                            first_free(2, existing_suffixes)),
             err |-> "none"]

create_entry(d, ref, lemma, pos, id) ==
    LET lex == get_lexicon_row(d, ref)
        gen == generate_entry_id(d, ref, lemma, pos)
        eid == IF id = None THEN gen.id ELSE id
        d1 == [d EXCEPT
                !.entries = @ \cup {[id |-> eid, lexicon |-> lex, pos |-> pos]},
                !.forms = @ (+) SetToBag({[entry |-> eid, form |-> lemma,
                                           script |-> "NULL", rank |-> 0]})]
    IN IF pos \notin VALID_POS THEN Raise(d, "ValidationError")
       ELSE IF lex = NULL THEN Raise(d, "EntityNotFoundError")
       ELSE IF id = None /\ gen.err # "none" THEN Raise(d, gen.err)
       ELSE IF id # None /\ id.pfx # ref THEN Raise(d, "ValidationError")
       ELSE IF get_entry_row(d, eid) # NULL
            THEN Raise(d, "DuplicateEntityError")
       ELSE Return(record_create(d1, "entry"))

(***************************************************************************)
(* editor.py: forms.  A row of forms is [entry, form, script, rank]; the   *)
(* table is UNIQUE on (entry, form, script), and SQLite holds two rows     *)
(* with a NULL script to be distinct, so the table is a bag.               *)
(***************************************************************************)
FormsOf(d, entry_id) == {x \in BagToSet(d.forms) : x.entry = entry_id}

add_form(d, entry_id, written_form, script) ==
    LET row == get_entry_row(d, entry_id)
        ranks == {x.rank : x \in FormsOf(d, entry_id)}
        new_rank == (IF ranks = {} THEN 0 ELSE SetMax(ranks)) + 1
        d1 == [d EXCEPT !.forms = @ (+) SetToBag(
                  {[entry |-> entry_id, form |-> written_form,
                    script |-> script, rank |-> new_rank]})]
    IN IF row = NULL THEN Raise(d, "EntityNotFoundError")
       ELSE IF script # "NULL" /\ \E x \in FormsOf(d, entry_id) :
                  x.form = written_form /\ x.script = script
            THEN Raise(d, "DuplicateEntityError")
       ELSE Return(record_create(d1, "form"))

\* remove_form without the test of the rank
remove_form_any_rank(d, entry_id, written_form, form_row) ==
    LET row == get_entry_row(d, entry_id)
        d1 == [d EXCEPT !.forms = @ (-) SetToBag({form_row})]
    IN IF row = NULL THEN Raise(d, "EntityNotFoundError")
       ELSE IF form_row = NULL THEN Raise(d, "EntityNotFoundError")
       ELSE Return(record_delete(d1, "form"))

\* form_row is the row the SELECT ... WHERE entry_rowid = ? AND form = ?
\* yields with fetchone(): any of the rows with that text, NULL when there
\* is none.
remove_form(d, entry_id, written_form, form_row) ==
    LET row == get_entry_row(d, entry_id)
        d1 == [d EXCEPT !.forms = @ (-) SetToBag({form_row})]
    IN IF row = NULL THEN Raise(d, "EntityNotFoundError")
       ELSE IF form_row = NULL THEN Raise(d, "EntityNotFoundError")
       ELSE IF form_row.rank = 0 THEN Raise(d, "ValidationError")
       ELSE Return(record_delete(d1, "form"))

\* the rows fetchone() can yield in remove_form
FormRows(d, entry_id, written_form) ==
    LET rows == {x \in FormsOf(d, entry_id) : x.form = written_form}
    IN IF rows = {} THEN {NULL} ELSE rows

\* UPDATE forms SET form = ? WHERE entry_rowid = ? AND rank = 0
update_lemma(d, entry_id, new_lemma) ==
    LET row == get_entry_row(d, entry_id)
        old == {x \in FormsOf(d, entry_id) : x.rank = 0}
        rest == [x \in BagToSet(d.forms) \ old |-> d.forms[x]]
        new == {[x EXCEPT !.form = new_lemma] : x \in old}
        updated == [t \in new |-> BagCardinality(
                      [x \in {y \in old : [y EXCEPT !.form = new_lemma] = t}
                          |-> d.forms[x]])]
    IN IF row = NULL THEN Raise(d, "EntityNotFoundError")
       ELSE Return(record_update([d EXCEPT !.forms = rest (+) updated],
                                 "entry"))

(***************************************************************************)
(* editor.py: senses.  A sense id "{entry_id}-{synset_local_part}-{PP}"    *)
(* is the record [e, s, r]: the entry id, the synset id without its        *)
(* prefix and the entry rank it was generated from.                        *)
(***************************************************************************)
generate_sense_id(entry_id, synset_id, position) ==
    [e |-> entry_id, s |-> [n |-> synset_id.n, pos |-> synset_id.pos],
     r |-> position]

SensesOfSynset(d, synset_id) == {x \in d.senses : x.synset = synset_id}
SensesOfEntry(d, entry_id) == {x \in d.senses : x.entry = entry_id}

\* add_sense without the DELETE FROM unlexicalized_synsets
add_sense_keep_mark(d, entry_id, synset_id, id) ==
    LET entry_row == get_entry_row(d, entry_id)
        synset_row == get_synset_row(d, synset_id)
        eranks == {x.entry_rank : x \in SensesOfEntry(d, entry_id)}
        sranks == {x.synset_rank : x \in SensesOfSynset(d, synset_id)}
        entry_rank == IF eranks = {} THEN 1 ELSE SetMax(eranks) + 1
        synset_rank == IF sranks = {} THEN 1 ELSE SetMax(sranks) + 1
        sid == IF id = None
               THEN generate_sense_id(entry_id, synset_id, entry_rank) ELSE id
        d1 == [d EXCEPT
                !.senses = @ \cup
                    {[id |-> sid, lexicon |-> entry_row.lexicon,
                      entry |-> entry_id, synset |-> synset_id,
                      entry_rank |-> entry_rank, synset_rank |-> synset_rank]}]
    IN IF entry_row = NULL THEN Raise(d, "EntityNotFoundError")
       ELSE IF synset_row = NULL THEN Raise(d, "EntityNotFoundError")
       ELSE IF \E x \in d.senses : x.entry = entry_id /\ x.synset = synset_id
            THEN Raise(d, "DuplicateEntityError")
       ELSE IF id # None /\ id.e.pfx # BareRef(entry_row.lexicon.id)
            THEN Raise(d, "ValidationError")
       ELSE IF get_sense_row(d, sid) # NULL
            THEN Raise(d, "DuplicateEntityError")
       ELSE Return(record_create(d1, "sense"))

add_sense(d, entry_id, synset_id, id) ==
    LET entry_row == get_entry_row(d, entry_id)
        synset_row == get_synset_row(d, synset_id)
        eranks == {x.entry_rank : x \in SensesOfEntry(d, entry_id)}
        sranks == {x.synset_rank : x \in SensesOfSynset(d, synset_id)}
        entry_rank == IF eranks = {} THEN 1 ELSE SetMax(eranks) + 1
        synset_rank == IF sranks = {} THEN 1 ELSE SetMax(sranks) + 1
        sid == IF id = None
               THEN generate_sense_id(entry_id, synset_id, entry_rank) ELSE id
        d1 == [d EXCEPT
                !.senses = @ \cup
                    {[id |-> sid, lexicon |-> entry_row.lexicon,
                      entry |-> entry_id, synset |-> synset_id,
                      entry_rank |-> entry_rank, synset_rank |-> synset_rank]},
                !.unlexicalized_synsets = @ \ {synset_id}]
    IN IF entry_row = NULL THEN Raise(d, "EntityNotFoundError")
       ELSE IF synset_row = NULL THEN Raise(d, "EntityNotFoundError")
       ELSE IF \E x \in d.senses : x.entry = entry_id /\ x.synset = synset_id
            THEN Raise(d, "DuplicateEntityError")
       ELSE IF id # None /\ id.e.pfx # BareRef(entry_row.lexicon.id)
            THEN Raise(d, "ValidationError")
       ELSE IF get_sense_row(d, sid) # NULL
            THEN Raise(d, "DuplicateEntityError")
       ELSE Return(record_create(d1, "sense"))

\* _cleanup_sense_relations: every row the sense is an endpoint of, and the
\* inverse row of each when the catalog has an inverse whose kind has a row
\* in relation_types.
cleanup_sense_relations(d, sense_id) ==
    LET rels == {r \in d.sense_relations :
                    r.source = sense_id \/ r.target = sense_id}
        inv == {r \in d.sense_relations : \E q \in rels :
                    /\ q.kind \in DOMAIN SENSE_RELATION_INVERSES
                    /\ SENSE_RELATION_INVERSES[q.kind] \in d.relation_types
                    /\ r.source = q.target /\ r.target = q.source
                    /\ r.kind = SENSE_RELATION_INVERSES[q.kind]}
    IN [d EXCEPT !.sense_relations = @ \ (rels \cup inv)]

\* RULE-EMPTY-001 / RULE-MOVE-003 left out
mark_if_empty_never(d, synset_id) == d

\* RULE-EMPTY-001 / RULE-MOVE-003: mark the synset when it has no sense left
mark_if_empty(d, synset_id) ==
    IF SensesOfSynset(d, synset_id) = {}
    THEN [d EXCEPT !.unlexicalized_synsets = @ \cup {synset_id}]
    ELSE d

remove_sense_internal(d, sense_id) ==
    LET row == get_sense_row(d, sense_id)
        d1 == record_delete(cleanup_sense_relations(d, sense_id), "sense")
        d2 == DeleteSenseRows(d1, {sense_id})
    IN IF row = NULL THEN Raise(d, "EntityNotFoundError")
       ELSE Return(mark_if_empty(d2, row.synset))

remove_sense(d, sense_id) == remove_sense_internal(d, sense_id)

move_sense(d, sense_id, target_synset_id) ==
    LET sense_row == get_sense_row(d, sense_id)
        target_row == get_synset_row(d, target_synset_id)
        d1 == [d EXCEPT
                !.senses = (@ \ {sense_row}) \cup
                    {[sense_row EXCEPT !.synset = target_synset_id]},
                !.unlexicalized_synsets = @ \ {target_synset_id}]
        d2 == mark_if_empty(d1, sense_row.synset)
    IN IF sense_row = NULL THEN Raise(d, "EntityNotFoundError")
       ELSE IF target_row = NULL THEN Raise(d, "EntityNotFoundError")
       ELSE IF \E x \in d.senses :
                  x.entry = sense_row.entry /\ x.synset = target_synset_id
            THEN Raise(d, "DuplicateEntityError")
       ELSE Return(record_update(d2, "sense"))

\* the cascade of delete_entry: _remove_sense_internal for every sense id
RECURSIVE remove_senses(_, _)
remove_senses(d, X) ==
    IF X = {} THEN d
    ELSE LET x == CHOOSE y \in X : TRUE
         IN remove_senses(remove_sense_internal(d, x).db, X \ {x})

\* the senses of an entry row: senses name their entry by its rowid, and the
\* lexicon of a sense is the lexicon of its entry
SensesOfEntryRow(d, row) ==
    {x \in d.senses : x.entry = row.id /\ x.lexicon = row.lexicon}

\* sense_count and the cascade go by the rowid of the row get_entry_row
\* returns; the DELETE goes by the id
delete_entry(d, entry_id, cascade) ==
    LET row == get_entry_row(d, entry_id)
        own == {x.id : x \in SensesOfEntryRow(d, row)}
        d1 == IF cascade THEN remove_senses(d, own) ELSE d
    IN IF row = NULL THEN Raise(d, "EntityNotFoundError")
       ELSE IF own # {} /\ ~cascade THEN Raise(d, "RelationError")
       ELSE Return(DeleteEntryRows(record_delete(d1, "entry"), {entry_id}))

\* the UPDATEs of reorder_senses: entry_rank i for every sense that has the
\* id at place i of the list, place after place
RECURSIVE set_entry_ranks(_, _, _)
set_entry_ranks(senses, sense_id_order, rank) ==
    IF sense_id_order = <<>> THEN senses
    ELSE set_entry_ranks(
            {IF x.id = Head(sense_id_order)
             THEN [x EXCEPT !.entry_rank = rank] ELSE x : x \in senses},
            Tail(sense_id_order), rank + 1)

reorder_senses(d, entry_id, sense_id_order) ==
    LET entry_row == get_entry_row(d, entry_id)
        current_ids == {x.id : x \in SensesOfEntryRow(d, entry_row)}
    IN IF entry_row = NULL THEN Raise(d, "EntityNotFoundError")
       ELSE IF {sense_id_order[i] : i \in DOMAIN sense_id_order}
                  # current_ids
            THEN Raise(d, "ValidationError")
       ELSE Return([d EXCEPT
                !.senses = set_entry_ranks(@, sense_id_order, 1)])

\* find_senses(entry_id=...): the lists the SELECT ... ORDER BY entry_rank
\* can return, rows of equal rank in either order
find_senses(d, entry_id) ==
    LET row == get_entry_row(d, entry_id)
        rows == IF row = NULL THEN {} ELSE SensesOfEntryRow(d, row)
    IN {q \in [1..Cardinality(rows) -> rows] :
           \A i, j \in DOMAIN q :
              i < j => q[i] # q[j] /\ q[i].entry_rank <= q[j].entry_rank}

(***************************************************************************)
(* editor.py: relations.                                                   *)
(***************************************************************************)
RelRow(lexicon, source, kind, target, noinv) ==
    [lexicon |-> lexicon, source |-> source, kind |-> kind,
     target |-> target, noinv |-> noinv]

HasRel(rels, source, kind, target) ==
    \E r \in rels : r.source = source /\ r.kind = kind /\ r.target = target

\* INSERT ... with the IntegrityError of UNIQUE (source, target, type)
\* suppressed, or INSERT OR IGNORE
\* INSERT without the UNIQUE (source_rowid, target_rowid, type_rowid) index
InsertRel_unchecked(rels, row) == rels \cup {row}

InsertRel(rels, row) ==
    IF HasRel(rels, row.source, row.kind, row.target) THEN rels
    ELSE rels \cup {row}

DeleteRel(rels, source, kind, target) ==
    {r \in rels : ~(r.source = source /\ r.kind = kind /\ r.target = target)}

add_synset_relation(d, source_id, relation_type, target_id, auto_inverse) ==
    LET src_row == get_synset_row(d, source_id)
        tgt_row == get_synset_row(d, target_id)
        d1 == get_or_create_relation_type(d, relation_type)
        d2 == [d1 EXCEPT !.synset_relations = InsertRel(@,
                  RelRow(src_row.lexicon, source_id, relation_type, target_id,
                         ~auto_inverse))]
        d3 == record_create(d2, "relation")
        inverse == SYNSET_RELATION_INVERSES[relation_type]
        d4 == get_or_create_relation_type(d3, inverse)
        d5 == [d4 EXCEPT !.synset_relations = InsertRel(@,
                  RelRow(tgt_row.lexicon, target_id, inverse, source_id, FALSE))]
    IN IF ~is_valid_synset_relation(relation_type)
       THEN Raise(d, "ValidationError")
       ELSE IF source_id = target_id THEN Raise(d, "ValidationError")
       ELSE IF src_row = NULL THEN Raise(d, "EntityNotFoundError")
       ELSE IF tgt_row = NULL THEN Raise(d, "EntityNotFoundError")
       ELSE IF auto_inverse /\ relation_type \in DOMAIN SYNSET_RELATION_INVERSES
            THEN Return(d5)
       ELSE Return(d3)

remove_synset_relation_keep_inverse(d, source_id, relation_type, target_id, auto_inverse) ==
    LET d1 == [d EXCEPT !.synset_relations =
                  DeleteRel(@, source_id, relation_type, target_id)]
        d2 == record_delete(d1, "relation")
    IN IF get_synset_row(d, source_id) = NULL
          \/ get_synset_row(d, target_id) = NULL THEN Return(d)
       ELSE IF relation_type \notin d.relation_types THEN Return(d)
       ELSE Return(d2)

remove_synset_relation(d, source_id, relation_type, target_id, auto_inverse) ==
    LET d1 == [d EXCEPT !.synset_relations =
                  DeleteRel(@, source_id, relation_type, target_id)]
        d2 == record_delete(d1, "relation")
        inverse == SYNSET_RELATION_INVERSES[relation_type]
        d3 == [d2 EXCEPT !.synset_relations =
                  DeleteRel(@, target_id, inverse, source_id)]
    IN IF get_synset_row(d, source_id) = NULL
          \/ get_synset_row(d, target_id) = NULL THEN Return(d)
       ELSE IF relation_type \notin d.relation_types THEN Return(d)
       ELSE IF /\ auto_inverse
               /\ relation_type \in DOMAIN SYNSET_RELATION_INVERSES
               /\ inverse \in d.relation_types
            THEN Return(d3)
       ELSE Return(d2)

add_sense_relation(d, source_id, relation_type, target_id, auto_inverse) ==
    LET src_row == get_sense_row(d, source_id)
        tgt_row == get_sense_row(d, target_id)
        d1 == get_or_create_relation_type(d, relation_type)
        d2 == [d1 EXCEPT !.sense_relations = InsertRel(@,
                  RelRow(src_row.lexicon, source_id, relation_type, target_id,
                         ~auto_inverse))]
        d3 == record_create(d2, "relation")
        inverse == SENSE_RELATION_INVERSES[relation_type]
        d4 == get_or_create_relation_type(d3, inverse)
        d5 == [d4 EXCEPT !.sense_relations = InsertRel(@,
                  RelRow(tgt_row.lexicon, target_id, inverse, source_id, FALSE))]
    IN IF ~is_valid_sense_relation(relation_type)
       THEN Raise(d, "ValidationError")
       ELSE IF source_id = target_id THEN Raise(d, "ValidationError")
       ELSE IF src_row = NULL THEN Raise(d, "EntityNotFoundError")
       ELSE IF tgt_row = NULL THEN Raise(d, "EntityNotFoundError")
       ELSE IF auto_inverse /\ relation_type \in DOMAIN SENSE_RELATION_INVERSES
            THEN Return(d5)
       ELSE Return(d3)

remove_sense_relation(d, source_id, relation_type, target_id, auto_inverse) ==
    LET d1 == [d EXCEPT !.sense_relations =
                  DeleteRel(@, source_id, relation_type, target_id)]
        inverse == SENSE_RELATION_INVERSES[relation_type]
        d2 == [d1 EXCEPT !.sense_relations =
                  DeleteRel(@, target_id, inverse, source_id)]
    IN IF get_sense_row(d, source_id) = NULL
          \/ get_sense_row(d, target_id) = NULL THEN Return(d)
       ELSE IF relation_type \notin d.relation_types THEN Return(d)
       ELSE IF /\ auto_inverse
               /\ relation_type \in DOMAIN SENSE_RELATION_INVERSES
               /\ inverse \in d.relation_types
            THEN Return(d2)
       ELSE Return(d1)

(***************************************************************************)
(* editor.py: ILI bindings.                                                *)
(***************************************************************************)
SetIli(d, synset_id, ili) ==
    [d EXCEPT !.synsets =
        {IF s.id = synset_id THEN [s EXCEPT !.ili = ili] ELSE s : s \in @}]

\* link_ili without the SELECT on proposed_ilis
link_ili_ignore_proposed(d, synset_id, ili_id) ==
    LET row == get_synset_row(d, synset_id)
        d1 == SetIli(get_or_create_ili(d, ili_id), synset_id, ili_id)
    IN IF row = NULL THEN Raise(d, "EntityNotFoundError")
       ELSE IF row.ili # NullIli THEN Raise(d, "ValidationError")
       ELSE Return(record_update(d1, "synset"))

link_ili(d, synset_id, ili_id) ==
    LET row == get_synset_row(d, synset_id)
        d1 == SetIli(get_or_create_ili(d, ili_id), synset_id, ili_id)
    IN IF row = NULL THEN Raise(d, "EntityNotFoundError")
       ELSE IF row.ili # NullIli THEN Raise(d, "ValidationError")
       ELSE IF synset_id \in d.proposed_ilis THEN Raise(d, "ValidationError")
       ELSE Return(record_update(d1, "synset"))

unlink_ili(d, synset_id) ==
    LET row == get_synset_row(d, synset_id)
        d1 == SetIli(record_update(d, "synset"), synset_id, NullIli)
    IN IF row = NULL THEN Raise(d, "EntityNotFoundError")
       ELSE Return([d1 EXCEPT !.proposed_ilis = @ \ {synset_id}])

\* propose_ili without the SELECT on proposed_ilis
propose_ili_ignore_proposed(d, synset_id, definition_len) ==
    LET row == get_synset_row(d, synset_id)
        d1 == [d EXCEPT !.proposed_ilis = @ \cup {synset_id}]
    IN IF row = NULL THEN Raise(d, "EntityNotFoundError")
       ELSE IF row.ili # NullIli THEN Raise(d, "ValidationError")
       ELSE IF definition_len < MinIliDefinition
            THEN Raise(d, "ValidationError")
       ELSE Return(record_create(d1, "ili"))

\* propose_ili with the minimum length one character lower
propose_ili_shorter(d, synset_id, definition_len) ==
    LET row == get_synset_row(d, synset_id)
        d1 == [d EXCEPT !.proposed_ilis = @ \cup {synset_id}]
    IN IF row = NULL THEN Raise(d, "EntityNotFoundError")
       ELSE IF row.ili # NullIli THEN Raise(d, "ValidationError")
       ELSE IF definition_len < MinIliDefinition - 1
            THEN Raise(d, "ValidationError")
       ELSE IF synset_id \in d.proposed_ilis THEN Raise(d, "ValidationError")
       ELSE Return(record_create(d1, "ili"))

propose_ili(d, synset_id, definition_len) ==
    LET row == get_synset_row(d, synset_id)
        d1 == [d EXCEPT !.proposed_ilis = @ \cup {synset_id}]
    IN IF row = NULL THEN Raise(d, "EntityNotFoundError")
       ELSE IF row.ili # NullIli THEN Raise(d, "ValidationError")
       ELSE IF definition_len < MinIliDefinition
            THEN Raise(d, "ValidationError")
       ELSE IF synset_id \in d.proposed_ilis THEN Raise(d, "ValidationError")
       ELSE Return(record_create(d1, "ili"))

\* get_synset(synset_id).ili: the ILI id of the synset's row, "in" when the
\* synset has a row in proposed_ilis
get_synset_ili(d, synset_id) ==
    LET row == get_synset_row(d, synset_id)
    IN IF synset_id \in d.proposed_ilis THEN "in"
       ELSE IF row.ili = NullIli THEN NoIli ELSE row.ili

(***************************************************************************)
(* editor.py: merge_synsets.                                               *)
(***************************************************************************)
\* str.strip() on the definition texts of the model
strip(text) ==
    CASE text = " d" -> "d"
      [] text = "d " -> "d"
      [] text = " " -> ""
      [] OTHER -> text

\* RULE-MERGE-001 without the test for a sense of the entry in the target
RECURSIVE merge_senses_move_all(_, _, _)
merge_senses_move_all(d, X, tgt) ==
    IF X = {} THEN d
    ELSE LET x == CHOOSE y \in X : TRUE
             row == get_sense_row(d, x)
             d1 == [d EXCEPT !.senses = (@ \ {row}) \cup
                            {[row EXCEPT !.synset = tgt]}]
         IN merge_senses_move_all(d1, X \ {x}, tgt)

\* RULE-MERGE-001 deleting every sense of the source
merge_senses_delete_all(d, X, tgt) == DeleteSenseRows(d, X)

\* RULE-MERGE-001: each sense of the source, in turn, is deleted when its
\* entry has a sense in the target at that moment, else moved to the target.
RECURSIVE merge_senses(_, _, _)
merge_senses(d, X, tgt) ==
    IF X = {} THEN d
    ELSE LET x == CHOOSE y \in X : TRUE
             row == get_sense_row(d, x)
             dup == \E y \in d.senses : y.entry = row.entry /\ y.synset = tgt
             d1 == IF dup THEN DeleteSenseRows(d, {x})
                   ELSE [d EXCEPT !.senses = (@ \ {row}) \cup
                            {[row EXCEPT !.synset = tgt]}]
         IN merge_senses(d1, X \ {x}, tgt)

\* RULE-MERGE-002 without the test for a row that points at the target
merge_outgoing_keep_loops(rels, src, tgt) ==
    LET out == {r \in rels : r.source = src}
        kept == {r \in out :
                    ~\E q \in rels \ {r} :
                          q.source = tgt /\ q.target = r.target
                          /\ q.kind = r.kind}
    IN (rels \ out) \cup {[r EXCEPT !.source = tgt] : r \in kept}

\* RULE-MERGE-002: the rows leaving the source.  A row that points at the
\* target is deleted; the UPDATE of any other row fails on UNIQUE (source,
\* target, type) when another row already has the new triple, and the row is
\* deleted then.
merge_outgoing(rels, src, tgt) ==
    LET out == {r \in rels : r.source = src}
        kept == {r \in out :
                    /\ r.target # tgt
                    /\ ~\E q \in rels \ {r} :
                          q.source = tgt /\ q.target = r.target
                          /\ q.kind = r.kind}
    IN (rels \ out) \cup {[r EXCEPT !.source = tgt] : r \in kept}

\* RULE-MERGE-003 deleting every row that arrives at the source
merge_incoming_drop_all(rels, src, tgt) == {r \in rels : r.target # src}

\* RULE-MERGE-003: the rows arriving at the source, likewise
merge_incoming(rels, src, tgt) ==
    LET inc == {r \in rels : r.target = src}
        kept == {r \in inc :
                    /\ r.source # tgt
                    /\ ~\E q \in rels \ {r} :
                          q.target = tgt /\ q.source = r.source
                          /\ q.kind = r.kind}
    IN (rels \ inc) \cup {[r EXCEPT !.target = tgt] : r \in kept}

\* RULE-MERGE-004: a definition of the source moves when its text is not
\* empty and its stripped text is not a stripped text of the target
merge_definitions(defs, src, tgt) ==
    LET tgt_defs == {strip(x.text) : x \in {y \in BagToSet(defs) :
                                        y.synset = tgt /\ y.text # ""}}
        moved == {x \in BagToSet(defs) :
                    /\ x.synset = src /\ x.text # ""
                    /\ strip(x.text) \notin tgt_defs}
        rest == [x \in {y \in BagToSet(defs) : y.synset # src} |-> defs[x]]
        arrived(t) == {x \in moved : [x EXCEPT !.synset = tgt] = t}
    IN [t \in DOMAIN rest \cup {[x EXCEPT !.synset = tgt] : x \in moved} |->
            (IF t \in DOMAIN rest THEN rest[t] ELSE 0)
            + (IF arrived(t) = {} THEN 0
               ELSE defs[CHOOSE x \in arrived(t) : TRUE])]

\* merge_synsets with RULE-MERGE-006 looking at real ILIs only
merge_synsets_real_ili_only(d, source_id, target_id) ==
    LET src == get_synset_row(d, source_id)
        tgt == get_synset_row(d, target_id)
        src_has_ili == src.ili # NullIli
        tgt_has_ili == tgt.ili # NullIli
        src_has_proposed == source_id \in d.proposed_ilis
        tgt_has_proposed == target_id \in d.proposed_ilis
        d1 == IF src_has_ili /\ ~tgt_has_ili
              THEN SetIli(d, target_id, src.ili) ELSE d
        d2 == IF src_has_proposed /\ ~tgt_has_proposed
              THEN [d1 EXCEPT !.proposed_ilis =
                        (@ \ {source_id}) \cup {target_id}]
              ELSE d1
        d3 == merge_senses(d2,
                {x.id : x \in SensesOfSynset(d2, source_id)}, target_id)
        d4 == [d3 EXCEPT !.synset_relations =
                  merge_incoming(merge_outgoing(@, source_id, target_id),
                                 source_id, target_id)]
        d5 == [d4 EXCEPT
                !.definitions = merge_definitions(@, source_id, target_id),
                !.unlexicalized_synsets = @ \ {target_id}]
        d6 == record_update(DeleteSynsetRows(d5, {source_id}), "synset")
    IN IF src = NULL THEN Raise(d, "EntityNotFoundError")
       ELSE IF tgt = NULL THEN Raise(d, "EntityNotFoundError")
       ELSE IF src_has_ili /\ tgt_has_ili THEN Raise(d, "ConflictError")
       \* return self._build_synset_model(target_id)
       ELSE IF get_synset_row(d6, target_id) = NULL
            THEN Raise(d6, "EntityNotFoundError")
       ELSE Return(d6)

merge_synsets(d, source_id, target_id) ==
    LET src == get_synset_row(d, source_id)
        tgt == get_synset_row(d, target_id)
        src_has_ili == src.ili # NullIli
        tgt_has_ili == tgt.ili # NullIli
        src_has_proposed == source_id \in d.proposed_ilis
        tgt_has_proposed == target_id \in d.proposed_ilis
        d1 == IF src_has_ili /\ ~tgt_has_ili
              THEN SetIli(d, target_id, src.ili) ELSE d
        d2 == IF src_has_proposed /\ ~tgt_has_proposed
              THEN [d1 EXCEPT !.proposed_ilis =
                        (@ \ {source_id}) \cup {target_id}]
              ELSE d1
        d3 == merge_senses(d2,
                {x.id : x \in SensesOfSynset(d2, source_id)}, target_id)
        d4 == [d3 EXCEPT !.synset_relations =
                  merge_incoming(merge_outgoing(@, source_id, target_id),
                                 source_id, target_id)]
        d5 == [d4 EXCEPT
                !.definitions = merge_definitions(@, source_id, target_id),
                !.unlexicalized_synsets = @ \ {target_id}]
        d6 == record_update(DeleteSynsetRows(d5, {source_id}), "synset")
    IN IF src = NULL THEN Raise(d, "EntityNotFoundError")
       ELSE IF tgt = NULL THEN Raise(d, "EntityNotFoundError")
       ELSE IF (src_has_ili \/ src_has_proposed)
               /\ (tgt_has_ili \/ tgt_has_proposed)
            THEN Raise(d, "ConflictError")
       \* return self._build_synset_model(target_id)
       ELSE IF get_synset_row(d6, target_id) = NULL
            THEN Raise(d6, "EntityNotFoundError")
       ELSE Return(d6)

(***************************************************************************)
(* editor.py: split_synset.  sense_groups is a sequence of sets of sense   *)
(* ids.                                                                    *)
(***************************************************************************)
\* RULE-SPLIT-004 for one group: a new synset, the group's senses moved to
\* it, a copy of every outgoing relation of the original, one history row
split_group(d, row, group, outgoing) ==
    LET new_id == generate_synset_id(d, BareRef(row.lexicon.id), row.lexicon,
                                     row.pos)
        copies == {RelRow(row.lexicon, new_id, r.kind, r.target, FALSE) :
                      r \in outgoing}
    IN record_create(
        [d EXCEPT
            !.synsets = @ \cup {[id |-> new_id, lexicon |-> row.lexicon,
                                 pos |-> row.pos, ili |-> NullIli]},
            !.senses = {IF x.id \in group THEN [x EXCEPT !.synset = new_id]
                        ELSE x : x \in @},
            !.synset_relations = @ \cup
                {c \in copies : ~HasRel(@, c.source, c.kind, c.target)}],
        "synset")

RECURSIVE split_groups(_, _, _, _)
split_groups(d, row, groups, outgoing) ==
    IF groups = <<>> THEN d
    ELSE split_groups(split_group(d, row, Head(groups), outgoing), row,
                      Tail(groups), outgoing)

\* split_synset without the test for fewer than two groups
split_synset_one_group(d, synset_id, sense_groups) ==
    LET row == get_synset_row(d, synset_id)
        current_ids == {x.id : x \in SensesOfSynset(d, synset_id)}
        provided_ids == UNION {sense_groups[i] : i \in DOMAIN sense_groups}
        outgoing == {r \in d.synset_relations : r.source = synset_id}
    IN IF row = NULL THEN Raise(d, "EntityNotFoundError")
       ELSE IF \E i, j \in DOMAIN sense_groups :
                  i # j /\ sense_groups[i] \cap sense_groups[j] # {}
            THEN Raise(d, "ValidationError")
       ELSE IF provided_ids # current_ids THEN Raise(d, "ValidationError")
       ELSE Return(split_groups(d, row, Tail(sense_groups), outgoing))

split_synset(d, synset_id, sense_groups) ==
    LET row == get_synset_row(d, synset_id)
        current_ids == {x.id : x \in SensesOfSynset(d, synset_id)}
        provided_ids == UNION {sense_groups[i] : i \in DOMAIN sense_groups}
        outgoing == {r \in d.synset_relations : r.source = synset_id}
    IN IF row = NULL THEN Raise(d, "EntityNotFoundError")
       ELSE IF \E i, j \in DOMAIN sense_groups :
                  i # j /\ sense_groups[i] \cap sense_groups[j] # {}
            THEN Raise(d, "ValidationError")
       ELSE IF provided_ids # current_ids THEN Raise(d, "ValidationError")
       ELSE IF Len(sense_groups) < 2 THEN Raise(d, "ValidationError")
       ELSE Return(split_groups(d, row, Tail(sense_groups), outgoing))

(***************************************************************************)
(* importer.py.  A parsed file is a sequence of lexicon dicts              *)
(*   [id, version, synsets, entries]                                       *)
(* with synsets a sequence of [id, pos, ili, lexicalized, relations],      *)
(* relations a set of [relType, target], entries a sequence of             *)
(* [id, lemma, pos, senses] and senses a sequence of [id, synset].  The    *)
(* ids of a file are distinct and new to the store.                        *)
(***************************************************************************)
\* _create_lexicon_record, from the INSERT on
create_lexicon_record(d, lex) ==
    record_create(
        [d EXCEPT !.lexicons = @ \cup
                      {[id |-> lex.id, version |-> lex.version]}],
        "lexicon")

\* _ensure_relation_types_and_lexfiles
ensure_relation_types(d, lex) ==
    [d EXCEPT !.relation_types = @ \cup
        {r.relType : r \in UNION {lex.synsets[i].relations :
                                      i \in DOMAIN lex.synsets}}]

\* _import_synsets: the synset rows, their ILI rows, their proposed-ILI
\* rows and unlexicalized marks as the file has them, a history row each
RECURSIVE import_synsets(_, _, _)
import_synsets(d, lex_row, syns) ==
    IF syns = <<>> THEN d
    ELSE LET syn == Head(syns)
             real == syn.ili # "" /\ syn.ili # "in"
             d1 == [d EXCEPT
                     !.ilis = IF real THEN @ \cup {syn.ili} ELSE @,
                     !.synsets = @ \cup
                         {[id |-> syn.id, lexicon |-> lex_row,
                           pos |-> syn.pos,
                           ili |-> IF real THEN syn.ili ELSE NullIli]},
                     !.proposed_ilis =
                         IF syn.ili = "in" THEN @ \cup {syn.id} ELSE @,
                     !.unlexicalized_synsets =
                         IF ~syn.lexicalized THEN @ \cup {syn.id} ELSE @]
         IN import_synsets(record_create(d1, "synset"), lex_row, Tail(syns))

\* _import_senses: the senses of one entry; a sense whose synset is not in
\* the store is skipped
RECURSIVE import_senses(_, _, _, _, _)
import_senses(d, lex_row, entry_id, senses, rank) ==
    IF senses = <<>> THEN d
    ELSE LET sense == Head(senses)
             d1 == [d EXCEPT !.senses = @ \cup
                      {[id |-> sense.id, lexicon |-> lex_row,
                        entry |-> entry_id, synset |-> sense.synset,
                        entry_rank |-> rank, synset_rank |-> rank]}]
         IN IF get_synset_row(d, sense.synset) = NULL
            THEN import_senses(d, lex_row, entry_id, Tail(senses), rank + 1)
            ELSE import_senses(record_create(d1, "sense"), lex_row, entry_id,
                               Tail(senses), rank + 1)

\* _import_entries: the entry row, its lemma form, its senses, a history row
RECURSIVE import_entries(_, _, _)
import_entries(d, lex_row, entries) ==
    IF entries = <<>> THEN d
    ELSE LET entry == Head(entries)
             d1 == [d EXCEPT
                     !.entries = @ \cup {[id |-> entry.id,
                                          lexicon |-> lex_row,
                                          pos |-> entry.pos]},
                     !.forms = @ (+) SetToBag(
                         {[entry |-> entry.id, form |-> entry.lemma,
                           script |-> "NULL", rank |-> 0]})]
             d2 == import_senses(d1, lex_row, entry.id, entry.senses, 1)
         IN import_entries(record_create(d2, "entry"), lex_row, Tail(entries))

\* _import_synset_relations: INSERT OR IGNORE of every relation whose target
\* is in the store, as the file has it
RECURSIVE import_synset_relations(_, _, _)
import_synset_relations(d, lex_row, syns) ==
    IF syns = <<>> THEN d
    ELSE LET syn == Head(syns)
             rows == {RelRow(lex_row, syn.id, r.relType, r.target, FALSE) :
                        r \in {q \in syn.relations :
                                  get_synset_row(d, q.target) # NULL}}
             d1 == [d EXCEPT !.synset_relations = @ \cup
                      {c \in rows : ~HasRel(@, c.source, c.kind, c.target)}]
         IN import_synset_relations(d1, lex_row, Tail(syns))

\* _LexiconImporter.import_all
import_all(d, lex) ==
    LET lex_row == [id |-> lex.id, version |-> lex.version]
        d1 == ensure_relation_types(create_lexicon_record(d, lex), lex)
        d2 == import_synsets(d1, lex_row, lex.synsets)
        d3 == import_entries(d2, lex_row, lex.entries)
    IN IF \E l \in d.lexicons : l.id = lex.id /\ l.version = lex.version
       THEN Raise(d, "DuplicateEntityError")
       ELSE Return(import_synset_relations(d3, lex_row, lex.synsets))

\* _import_resource: "with conn:" around the lexicons of the file.  The
\* connection commits when the block ends and rolls back when it raises,
\* whoever opened the transaction.
RECURSIVE import_lexicons(_, _)
import_lexicons(d, lexicons) ==
    IF lexicons = <<>> THEN Return(d)
    ELSE LET r == import_all(d, Head(lexicons))
         IN IF r.err # "none" THEN r
            ELSE import_lexicons(r.db, Tail(lexicons))

import_resource(d, resource) ==
    LET r == import_lexicons(d, resource)
    IN [r EXCEPT !.txn = IF r.err = "none" THEN "commit" ELSE "rollback"]

\* import_from_lmf, called by import_lmf
import_lmf(d, source) ==
    IF source.kind = "missing" THEN Raise(d, "FileNotFoundError")
    ELSE IF source.kind = "malformed" THEN Raise(d, "DataImportError")
    ELSE import_resource(d, source.lexicons)

(***************************************************************************)
(* editor.py: _modifies_db and the connection's transaction.               *)
(***************************************************************************)
Store(dsk, conn) == [disk |-> dsk, db |-> conn]

\* what the call itself did to the transaction before _modifies_db sees
\* its outcome
EndTxn(dsk, r) ==
    CASE r.txn = "commit" -> Store(r.db, r.db)
      [] r.txn = "rollback" -> Store(dsk, dsk)
      [] OTHER -> Store(dsk, r.db)

\* _modifies_db without the rollback of "with self._conn:"
modifies_db_no_rollback(inb, dsk, r) ==
    LET st == EndTxn(dsk, r)
    IN IF inb THEN st
       ELSE IF r.err = "none" THEN Store(st.db, st.db)
       ELSE st

\* _modifies_db: inside a batch the call runs bare; outside, "with
\* self._conn:" commits when the call returns and rolls back when it raises
modifies_db(inb, dsk, r) ==
    LET st == EndTxn(dsk, r)
    IN IF inb THEN st
       ELSE IF r.err = "none" THEN Store(st.db, st.db)
       ELSE Store(st.disk, st.disk)

(***************************************************************************)
(* The state machine.  A public call is one step: the decorated method     *)
(* runs on the connection's view and _modifies_db settles the transaction. *)
(* last records the call, the exception it raised, whether it had written  *)
(* anything when it ended, for a call that wrote the connection's view     *)
(* before the call (pre) and, when it raised, the view at that moment      *)
(* (post).                                                                 *)
(***************************************************************************)
BatchOps == {"batch_enter", "batch_exit", "batch_raise"}

Call(op, r) ==
    /\ LET st == modifies_db(in_batch, disk, r)
       IN /\ disk' = st.disk
          /\ db' = st.db
    /\ last' = [op |-> op, err |-> r.err, wrote |-> r.db # db,
                pre |-> IF r.db # db THEN db ELSE EmptyDb,
                post |-> IF r.err # "none" THEN r.db ELSE EmptyDb]
    /\ UNCHANGED <<in_batch, batch_depth, batch_base>>

\* batch(): the code before the yield
batch_enter ==
    /\ batch_depth < MaxDepth
    /\ batch_depth' = batch_depth + 1
    /\ in_batch' = TRUE
    /\ batch_base' = IF batch_depth = 0 THEN disk ELSE batch_base
    /\ last' = [op |-> "batch_enter", err |-> "none", wrote |-> FALSE,
                pre |-> EmptyDb, post |-> EmptyDb]
    /\ UNCHANGED <<disk, db>>

\* batch(): the else branch, the body ended normally
batch_exit ==
    /\ batch_depth > 0
    /\ batch_depth' = batch_depth - 1
    /\ IF batch_depth = 1
       THEN /\ disk' = db
            /\ in_batch' = FALSE
            /\ batch_base' = EmptyDb
            /\ UNCHANGED db
       ELSE UNCHANGED <<disk, db, in_batch, batch_base>>
    /\ last' = [op |-> "batch_exit", err |-> "none", wrote |-> FALSE,
                pre |-> EmptyDb, post |-> EmptyDb]

\* batch(): the except branch, the exception e left the body
batch_raise(e) ==
    /\ batch_depth > 0
    /\ batch_depth' = batch_depth - 1
    /\ IF batch_depth = 1
       THEN /\ db' = disk
            /\ in_batch' = FALSE
            /\ batch_base' = EmptyDb
            /\ UNCHANGED disk
       ELSE UNCHANGED <<disk, db, in_batch, batch_base>>
    /\ last' = [op |-> "batch_raise", err |-> e, wrote |-> FALSE,
                pre |-> EmptyDb, post |-> EmptyDb]

SynsetIds(d) == {x.id : x \in d.synsets}
EntryIds(d) == {x.id : x \in d.entries}
SenseIds(d) == {x.id : x \in d.senses}

NoDefinition == [given |-> FALSE, len |-> 0]

\* the files of the model
LexDict(id, version, synsets, entries) ==
    [id |-> id, version |-> version, synsets |-> synsets, entries |-> entries]
File(lexicons) == [kind |-> "ok", lexicons |-> lexicons]
FileMissing == [kind |-> "missing", lexicons |-> <<>>]
FileMalformed == [kind |-> "malformed", lexicons |-> <<>>]
FileB == File(<<LexDict("b", "1", <<>>, <<>>)>>)
FileBB == File(<<LexDict("b", "1", <<>>, <<>>), LexDict("b", "1", <<>>, <<>>)>>)

Init ==
    /\ disk = EmptyDb
    /\ db = EmptyDb
    /\ in_batch = FALSE
    /\ batch_depth = 0
    /\ batch_base = EmptyDb
    /\ last = [op |-> "init", err |-> "none", wrote |-> FALSE,
               pre |-> EmptyDb, post |-> EmptyDb]

(***************************************************************************)
(* Spec: calls and batches on one lexicon, with files of another lexicon.  *)
(***************************************************************************)
NextCall ==
    \/ Call("create_lexicon", create_lexicon(db, "a", "1"))
    \/ Call("create_synset",
            create_synset(db, BareRef("a"), "n", "d", None, NoIli,
                          NoDefinition, TRUE))
    \/ \E s \in SynsetIds(db) \cup {SynsetId(BareRef("a"), 1, "n")} :
          Call("delete_synset", delete_synset(db, s, FALSE))
    \/ \E s, t \in SynsetIds(db) :
          Call("merge_synsets", merge_synsets(db, s, t))
    \/ \E f \in {FileMissing, FileMalformed, FileB, FileBB} :
          Call("import_lmf", import_lmf(db, f))
    \/ Call("create_entry",
            create_entry(db, BareRef("a"), "cat", "n", None))
    \/ \E e \in EntryIds(db), s \in SynsetIds(db) :
          Call("add_sense", add_sense(db, e, s, None))
    \/ \E s, t \in SynsetIds(db) :
          Call("add_synset_relation",
               add_synset_relation(db, s, "hypernym", t, TRUE))
    \/ \E s \in SynsetIds(db) : Call("link_ili", link_ili(db, s, "i1"))
    \/ \E e \in EntryIds(db) :
          Call("delete_entry", delete_entry(db, e, TRUE))
    \/ \E l \in {BareRef("a"), BareRef("b")} :
          Call("delete_lexicon", delete_lexicon(db, l))

Next ==
    \/ batch_enter
    \/ batch_exit
    \/ \E e \in {"RuntimeError"} : batch_raise(e)
    \/ HistRows(db) < MaxHist /\ NextCall

Spec == Init /\ [][Next]_vars

IsCall(l) == l.op \notin BatchOps \cup {"init"}

\* C1: outside a batch a public call is atomic: when it raises, the committed
\* store and the connection's view are what they were before the call; when
\* it returns, everything it wrote (data and history rows) is committed.
C1_AtomicOutsideBatch ==
    [][(~in_batch /\ IsCall(last')) =>
          IF last'.err # "none"
          THEN disk' = disk /\ db' = disk
          ELSE disk' = db' /\ (last'.wrote <=> disk' # disk)]_vars

\* a call outside a batch that raised after it had written: merge_synsets of
\* a synset into itself
C1_Witness ==
    /\ ~in_batch
    /\ last.op = "merge_synsets" /\ last.err = "EntityNotFoundError"
    /\ last.wrote
    /\ disk = db

\* C2: while a batch is active nothing is committed, except by the normal
\* exit of the outermost scope, which commits every write of the batch.
C2_BatchCommitsOnlyAtOutermostExit ==
    [][in_batch =>
          \/ disk' = disk
          \/ /\ batch_depth = 1 /\ last'.op = "batch_exit"
             /\ disk' = db]_vars

\* C3: when an exception leaves the outermost batch scope, the store is what
\* it was when the batch was opened and the exception reaches the caller.
C3_BatchRaiseRestoresStore ==
    [][(batch_depth = 1 /\ last'.op = "batch_raise") =>
          /\ disk' = batch_base /\ db' = batch_base
          /\ last'.err # "none"]_vars

SetTables ==
    {"lexicons", "synsets", "proposed_ilis", "unlexicalized_synsets", "ilis",
     "entries", "senses", "synset_relations", "sense_relations",
     "relation_types"}
BagTables == {"definitions", "forms", "edit_history"}

\* the store c holds none of the writes that led from pre to post: no row
\* the call inserted, every row it deleted
WritesAbsent(pre, post, c) ==
    /\ \A t \in SetTables :
          /\ (post[t] \ pre[t]) \cap c[t] = {}
          /\ (pre[t] \ post[t]) \subseteq c[t]
    /\ \A t \in BagTables :
          \A x \in BagToSet(pre[t]) \cup BagToSet(post[t]) :
             /\ CopiesIn(x, post[t]) > CopiesIn(x, pre[t])
                   => CopiesIn(x, c[t]) <= CopiesIn(x, pre[t])
             /\ CopiesIn(x, post[t]) < CopiesIn(x, pre[t])
                   => CopiesIn(x, c[t]) >= CopiesIn(x, pre[t])

\* C4: a call that raises inside a batch, followed by the normal exit of the
\* batch: none of the writes of the failed call are committed.
C4_FailedCallInBatchCommitsNothing ==
    [][(/\ in_batch /\ batch_depth = 1
        /\ IsCall(last) /\ last.err # "none"
        /\ last'.op = "batch_exit") =>
          WritesAbsent(last.pre, last.post, disk')]_vars

(***************************************************************************)
(* SpecRel: relations.  The store starts as these calls leave it: one      *)
(* lexicon, three synsets, one entry with a sense in two of the synsets.   *)
(* Calls run outside batches.  remove_synset_relation and                  *)
(* remove_sense_relation are called with auto_inverse = True only.         *)
(***************************************************************************)
S1 == SynsetId(BareRef("a"), 1, "n")
S2 == SynsetId(BareRef("a"), 2, "n")
Cat == EntryId(BareRef("a"), "cat", "n", 1)
Dog == EntryId(BareRef("a"), "dog", "n", 1)

NewSynset(d) ==
    create_synset(d, BareRef("a"), "n", "d", None, NoIli, NoDefinition,
                  TRUE).db

SeedSynsets ==
    NewSynset(NewSynset(NewSynset(create_lexicon(EmptyDb, "a", "1").db)))

SeedRel ==
    LET d1 == create_entry(SeedSynsets, BareRef("a"), "cat", "n", None).db
    IN add_sense(add_sense(d1, Cat, S1, None).db, Cat, S2, None).db

\* a file whose only synset is related to itself by a kind without inverse
FileLoop ==
    File(<<LexDict("b", "1",
            <<[id |-> SynsetId(BareRef("b"), 1, "n"), pos |-> "n", ili |-> "",
               lexicalized |-> TRUE,
               relations |-> {[relType |-> "also",
                               target |-> SynsetId(BareRef("b"), 1, "n")]}]>>,
            <<>>)>>)

\* the ways to split the senses X of a synset into two groups, a way into
\* three groups, and two invalid ways
SenseGroups(X) ==
    {<<A, X \ A>> : A \in SUBSET X} \cup {<<X, {}, {}>>, <<X>>, <<X, X>>}

InitRel ==
    /\ disk = SeedRel
    /\ db = SeedRel
    /\ in_batch = FALSE
    /\ batch_depth = 0
    /\ batch_base = EmptyDb
    /\ last = [op |-> "init", err |-> "none", wrote |-> FALSE,
               pre |-> EmptyDb, post |-> EmptyDb]

NextRel ==
    /\ HistRows(db) < HistRows(SeedRel) + MaxRelCalls
    /\ \/ \E s, t \in SynsetIds(db), k \in {"hypernym", "similar", "also"},
            ai \in BOOLEAN :
             Call("add_synset_relation",
                  add_synset_relation(db, s, k, t, ai))
       \/ \E s, t \in SynsetIds(db) :
             Call("add_synset_relation",
                  add_synset_relation(db, s, "bogus", t, TRUE))
       \/ \E s, t \in SynsetIds(db), k \in {"hypernym", "similar", "also"} :
             Call("remove_synset_relation",
                  remove_synset_relation(db, s, k, t, TRUE))
       \/ \E x, y \in SenseIds(db), k \in {"metaphor", "antonym", "also"},
            ai \in BOOLEAN :
             Call("add_sense_relation", add_sense_relation(db, x, k, y, ai))
       \/ \E x, y \in SenseIds(db), k \in {"metaphor", "antonym"} :
             Call("remove_sense_relation",
                  remove_sense_relation(db, x, k, y, TRUE))
       \/ \E s, t \in SynsetIds(db) :
             Call("merge_synsets", merge_synsets(db, s, t))
       \/ \E s \in SynsetIds(db) :
             \E g \in SenseGroups({x.id : x \in SensesOfSynset(db, s)}) :
                Call("split_synset", split_synset(db, s, g))
       \/ \E s \in SynsetIds(db) :
             Call("delete_synset", delete_synset(db, s, TRUE))
       \/ Call("import_lmf", import_lmf(db, FileLoop))

SpecRel == InitRel /\ [][NextRel]_vars

\* C5: every stored relation whose kind has an inverse in the catalog has its
\* inverse row stored too, unless it was inserted by an add call with
\* auto_inverse = False.
C5_InverseStored ==
    /\ \A r \in db.synset_relations :
          (r.kind \in DOMAIN SYNSET_RELATION_INVERSES /\ ~r.noinv) =>
             HasRel(db.synset_relations, r.target,
                    SYNSET_RELATION_INVERSES[r.kind], r.source)
    /\ \A r \in db.sense_relations :
          (r.kind \in DOMAIN SENSE_RELATION_INVERSES /\ ~r.noinv) =>
             HasRel(db.sense_relations, r.target,
                    SENSE_RELATION_INVERSES[r.kind], r.source)

SelfLoops(d) ==
    {r \in d.synset_relations \cup d.sense_relations : r.source = r.target}

\* C8 as stated: no stored synset relation or sense relation has
\* source = target.
C8_NoSelfLoop == SelfLoops(db) = {}

\* C8 amended: no call other than import_lmf adds a relation with
\* source = target.
C8_OnlyImportAddsSelfLoop ==
    [][last'.op # "import_lmf" => SelfLoops(db') \subseteq SelfLoops(db)]_vars

\* a merge has dropped a relation that led from its source to its target
C8_Witness ==
    /\ last.op = "merge_synsets" /\ last.err = "none"
    /\ \E r \in last.pre.synset_relations :
          /\ r.source \notin SynsetIds(db)
          /\ r.target \in SynsetIds(db)
          /\ ~\E q \in db.synset_relations :
                q.kind = r.kind /\ q.target = r.target

(***************************************************************************)
(* SpecSense: senses and the unlexicalized mark.  The store starts as      *)
(* these calls leave it: one lexicon, a synset created lexicalized, a      *)
(* synset created with lexicalized = False, two entries.  Calls run        *)
(* outside batches.                                                        *)
(***************************************************************************)
SeedSense ==
    LET d1 == NewSynset(create_lexicon(EmptyDb, "a", "1").db)
        d2 == create_synset(d1, BareRef("a"), "n", "d", None, NoIli,
                            NoDefinition, FALSE).db
        d3 == create_entry(d2, BareRef("a"), "cat", "n", None).db
    IN create_entry(d3, BareRef("a"), "dog", "n", None).db

\* a file whose synset has lexicalized="false" and a sense
FileMarked ==
    File(<<LexDict("b", "1",
            <<[id |-> SynsetId(BareRef("b"), 1, "n"), pos |-> "n", ili |-> "",
               lexicalized |-> FALSE, relations |-> {}]>>,
            <<[id |-> EntryId(BareRef("b"), "cat", "n", 1), lemma |-> "cat",
               pos |-> "n",
               senses |-> <<[id |-> generate_sense_id(
                                       EntryId(BareRef("b"), "cat", "n", 1),
                                       SynsetId(BareRef("b"), 1, "n"), 1),
                             synset |-> SynsetId(BareRef("b"), 1, "n")]>>]>>)>>)

InitSense ==
    /\ disk = SeedSense
    /\ db = SeedSense
    /\ in_batch = FALSE
    /\ batch_depth = 0
    /\ batch_base = EmptyDb
    /\ last = [op |-> "init", err |-> "none", wrote |-> FALSE,
               pre |-> EmptyDb, post |-> EmptyDb]

NextSense ==
    /\ HistRows(db) < HistRows(SeedSense) + MaxSenseCalls
    /\ \/ \E lexicalized \in BOOLEAN :
             Call("create_synset",
                  create_synset(db, BareRef("a"), "n", "d", None, NoIli,
                                NoDefinition, lexicalized))
       \/ \E e \in EntryIds(db), s \in SynsetIds(db) :
             Call("add_sense", add_sense(db, e, s, None))
       \/ \E x \in SenseIds(db) : Call("remove_sense", remove_sense(db, x))
       \/ \E x \in SenseIds(db), s \in SynsetIds(db) :
             Call("move_sense", move_sense(db, x, s))
       \/ \E s, t \in SynsetIds(db) :
             Call("merge_synsets", merge_synsets(db, s, t))
       \/ \E s \in SynsetIds(db) :
             \E g \in SenseGroups({x.id : x \in SensesOfSynset(db, s)}) :
                Call("split_synset", split_synset(db, s, g))
       \/ \E e \in EntryIds(db) :
             Call("delete_entry", delete_entry(db, e, TRUE))
       \/ \E s \in SynsetIds(db) :
             Call("delete_synset", delete_synset(db, s, TRUE))
       \/ Call("import_lmf", import_lmf(db, FileMarked))

SpecSense == InitSense /\ [][NextSense]_vars

\* the synsets that carry the unlexicalized mark and own a sense
MarkedWithSense(d) ==
    {s \in d.unlexicalized_synsets : SensesOfSynset(d, s) # {}}

\* C6 as stated: no synset both carries the unlexicalized mark and owns a
\* sense.
C6_NoMarkedSynsetWithSense == MarkedWithSense(db) = {}

\* C6 amended: no call other than import_lmf leaves a synset both marked
\* unlexicalized and owning a sense that was not so before the call.
C6_OnlyImportMarksSynsetWithSense ==
    [][last'.op # "import_lmf" =>
          MarkedWithSense(db') \subseteq MarkedWithSense(db)]_vars

\* add_sense has put a sense into a synset that carried the mark
C6_Witness ==
    /\ last.op = "add_sense" /\ last.err = "none"
    /\ \E x \in db.senses \ last.pre.senses :
          /\ x.synset \in last.pre.unlexicalized_synsets
          /\ x.synset \notin db.unlexicalized_synsets

\* C7: no entry has two senses in the same synset.
C7_NoTwoSensesOfEntryInSynset ==
    \A x, y \in db.senses :
       (x.entry = y.entry /\ x.synset = y.synset) => x = y

\* a merge has deleted a sense of its source because the entry had a sense in
\* the target
C7_Witness ==
    /\ last.op = "merge_synsets" /\ last.err = "none"
    /\ \E x, y \in last.pre.senses :
          /\ x.entry = y.entry
          /\ x.synset \notin SynsetIds(db) /\ y.synset \in SynsetIds(db)
          /\ x.id \notin SenseIds(db) /\ y \in db.senses

(***************************************************************************)
(* SpecIli: ILI bindings and proposals.  The store starts with one lexicon *)
(* and two synsets that have neither.  Calls run outside batches.          *)
(***************************************************************************)
SeedIli == NewSynset(NewSynset(create_lexicon(EmptyDb, "a", "1").db))

IliDefinitions ==
    {NoDefinition, [given |-> TRUE, len |-> MinIliDefinition - 1],
     [given |-> TRUE, len |-> MinIliDefinition]}

\* a file with a synset that proposes an ILI and a synset bound to one
FileIli ==
    File(<<LexDict("b", "1",
            <<[id |-> SynsetId(BareRef("b"), 1, "n"), pos |-> "n",
               ili |-> "in", lexicalized |-> TRUE, relations |-> {}],
              [id |-> SynsetId(BareRef("b"), 2, "n"), pos |-> "n",
               ili |-> "i1", lexicalized |-> TRUE, relations |-> {}]>>,
            <<>>)>>)

InitIli ==
    /\ disk = SeedIli
    /\ db = SeedIli
    /\ in_batch = FALSE
    /\ batch_depth = 0
    /\ batch_base = EmptyDb
    /\ last = [op |-> "init", err |-> "none", wrote |-> FALSE,
               pre |-> EmptyDb, post |-> EmptyDb]

NextIli ==
    /\ HistRows(db) < HistRows(SeedIli) + MaxIliCalls
    /\ \/ \E ili \in {NoIli, "i1", "in"}, def \in IliDefinitions :
             Call("create_synset",
                  create_synset(db, BareRef("a"), "n", "d", None, ili, def,
                                TRUE))
       \/ \E s \in SynsetIds(db), i \in {"i1", "i2"} :
             Call("link_ili", link_ili(db, s, i))
       \/ \E s \in SynsetIds(db) : Call("unlink_ili", unlink_ili(db, s))
       \/ \E s \in SynsetIds(db),
            n \in {MinIliDefinition - 1, MinIliDefinition} :
             Call("propose_ili", propose_ili(db, s, n))
       \/ \E s, t \in SynsetIds(db) :
             Call("merge_synsets", merge_synsets(db, s, t))
       \/ Call("import_lmf", import_lmf(db, FileIli))

SpecIli == InitIli /\ [][NextIli]_vars

\* C9: no synset has both a real ILI binding and a proposed ILI.
C9_NoIliAndProposed ==
    \A s \in db.synsets : s.ili = NullIli \/ s.id \notin db.proposed_ilis

\* link_ili has refused a synset that has a proposed ILI: it raised
\* ValidationError although no synset is bound to an ILI
C9_Witness ==
    /\ last.op = "link_ili" /\ last.err = "ValidationError"
    /\ db.proposed_ilis # {}
    /\ \A s \in db.synsets : s.ili = NullIli

(***************************************************************************)
(* SpecLex: lexicons of two ids in two versions, created by create_lexicon *)
(* and by files.  Calls run outside batches, on a store that starts empty. *)
(***************************************************************************)
FileA2 == File(<<LexDict("a", "2", <<>>, <<>>)>>)
FileA1A2 ==
    File(<<LexDict("a", "1", <<>>, <<>>), LexDict("a", "2", <<>>, <<>>)>>)

NextLex ==
    /\ HistRows(db) < MaxLexCalls
    /\ \/ \E id \in LexIds, version \in Versions :
             Call("create_lexicon", create_lexicon(db, id, version))
       \/ \E f \in {FileB, FileA2, FileA1A2} :
             Call("import_lmf", import_lmf(db, f))
       \/ \E ref \in LexRefs : Call("delete_lexicon", delete_lexicon(db, ref))
       \/ \E ref \in LexRefs :
             Call("create_synset",
                  create_synset(db, ref, "n", "d", None, NoIli, NoDefinition,
                                TRUE))
       \/ \E ref \in LexRefs :
             Call("create_entry", create_entry(db, ref, "cat", "n", None))
       \/ \E e \in EntryIds(db), s \in SynsetIds(db) :
             Call("add_sense", add_sense(db, e, s, None))

SpecLex == Init /\ [][NextLex]_vars

\* C10: no two lexicons in the store share a bare id.
C10_BareIdUnique ==
    \A l, m \in db.lexicons : l.id = m.id => l = m

\* C11: the id of every synset, entry and sense begins with the bare id of
\* its owning lexicon followed by "-".
C11_IdHasLexiconPrefix ==
    /\ \A s \in db.synsets : s.id.pfx = BareRef(s.lexicon.id)
    /\ \A e \in db.entries : e.id.pfx = BareRef(e.lexicon.id)
    /\ \A x \in db.senses : x.id.e.pfx = BareRef(x.lexicon.id)

(***************************************************************************)
(* SpecForm: the forms of entries.  The store starts with one lexicon and  *)
(* one entry.  Calls run outside batches.                                  *)
(***************************************************************************)
SeedForm ==
    create_entry(create_lexicon(EmptyDb, "a", "1").db, BareRef("a"), "cat",
                 "n", None).db

InitForm ==
    /\ disk = SeedForm
    /\ db = SeedForm
    /\ in_batch = FALSE
    /\ batch_depth = 0
    /\ batch_base = EmptyDb
    /\ last = [op |-> "init", err |-> "none", wrote |-> FALSE,
               pre |-> EmptyDb, post |-> EmptyDb]

NextForm ==
    /\ HistRows(db) < HistRows(SeedForm) + MaxFormCalls
    /\ \/ \E lemma \in {"cat", "Cat"} :
             Call("create_entry",
                  create_entry(db, BareRef("a"), lemma, "n", None))
       \/ \E e \in EntryIds(db) \cup {Dog}, w \in {"cat", "kat"},
            script \in {"NULL", "Latn"} :
             Call("add_form", add_form(db, e, w, script))
       \/ \E e \in EntryIds(db) \cup {Dog}, w \in {"cat", "kat"} :
             \E form_row \in FormRows(db, e, w) :
                Call("remove_form", remove_form(db, e, w, form_row))
       \/ \E e \in EntryIds(db) \cup {Dog}, w \in {"cat", "kat"} :
             Call("update_lemma", update_lemma(db, e, w))
       \/ \E e \in EntryIds(db) :
             Call("delete_entry", delete_entry(db, e, TRUE))

SpecForm == InitForm /\ [][NextForm]_vars

\* the number of rows of rank 0 the entry has in forms
LemmaRows(d, entry_id) ==
    BagCardinality([x \in {y \in FormsOf(d, entry_id) : y.rank = 0}
                       |-> d.forms[x]])

\* C12: every entry has exactly one form of rank 0, and remove_form leaves
\* the rows of rank 0 as they are.
C12_OneLemmaForm ==
    /\ [](\A e \in db.entries : LemmaRows(db, e.id) = 1)
    /\ [][last'.op = "remove_form" =>
             \A x \in BagToSet(db.forms) :
                x.rank = 0 => CopiesIn(x, db'.forms) = CopiesIn(x, db.forms)]_vars

\* remove_form has removed a form that has the text of the lemma
C12_Witness ==
    /\ last.op = "remove_form" /\ last.err = "none"
    /\ \E x \in BagToSet(db.forms), y \in BagToSet(last.pre.forms) :
          /\ x.rank = 0 /\ y.rank > 0
          /\ y.entry = x.entry /\ y.form = x.form
          /\ CopiesIn(y, db.forms) < CopiesIn(y, last.pre.forms)

\* every table but the log of the calls holds the same rows in d1 and d2
SameRows(d1, d2) ==
    \A t \in (SetTables \cup BagTables) \ {"edit_history"} : d1[t] = d2[t]

\* C13: from any store, creating a lexicon, a synset or an entry and then
\* deleting it with cascade returns every table to the rows it held before
\* the create (edit_history, which records the two calls, left aside).
C13_CreateDeleteRestores ==
    /\ \A id \in LexIds, version \in Versions :
          LET c == create_lexicon(db, id, version)
          IN c.err = "none" =>
                \A ref \in {BareRef(id), [id |-> id, version |-> version]} :
                   LET r == delete_lexicon(c.db, ref)
                   IN r.err = "none" /\ SameRows(r.db, db)
    /\ \A ref \in LexRefs :
          LET c == create_synset(db, ref, "n", "d", None, NoIli,
                                 NoDefinition, TRUE)
          IN c.err = "none" =>
                LET new == CHOOSE s \in SynsetIds(c.db) : s \notin SynsetIds(db)
                    r == delete_synset(c.db, new, TRUE)
                IN r.err = "none" /\ SameRows(r.db, db)
    /\ \A ref \in LexRefs :
          LET c == create_entry(db, ref, "cat", "n", None)
          IN c.err = "none" =>
                LET new == CHOOSE e \in EntryIds(c.db) : e \notin EntryIds(db)
                    r == delete_entry(c.db, new, TRUE)
                IN r.err = "none" /\ SameRows(r.db, db)

(***************************************************************************)
(* SpecPair: adding and removing relations, two calls at a time.  The      *)
(* store starts with one lexicon, two synsets, an entry with a sense in    *)
(* each, and S1 hypernym S2 added without its inverse.  last records the   *)
(* arguments of the call, the store before it and the number of calls so   *)
(* far, and prev the call before.                                          *)
(***************************************************************************)
RelArgs(source, kind, target, auto_inverse) ==
    [source |-> source, kind |-> kind, target |-> target,
     auto_inverse |-> auto_inverse]

CallPair(op, args, r) ==
    /\ LET st == modifies_db(in_batch, disk, r)
       IN /\ disk' = st.disk
          /\ db' = st.db
    /\ last' = [op |-> op, err |-> r.err, wrote |-> r.db # db, pre |-> db,
                post |-> EmptyDb, args |-> args, n |-> last.n + 1,
                prev |-> [op |-> last.op, err |-> last.err,
                          args |-> last.args, pre |-> last.pre]]
    /\ UNCHANGED <<in_batch, batch_depth, batch_base>>

SeedPair ==
    LET d1 == NewSynset(NewSynset(create_lexicon(EmptyDb, "a", "1").db))
        d2 == create_entry(d1, BareRef("a"), "cat", "n", None).db
        d3 == add_sense(add_sense(d2, Cat, S1, None).db, Cat, S2, None).db
    IN add_synset_relation(d3, S1, "hypernym", S2, FALSE).db

InitPair ==
    /\ disk = SeedPair
    /\ db = SeedPair
    /\ in_batch = FALSE
    /\ batch_depth = 0
    /\ batch_base = EmptyDb
    /\ last = [op |-> "init", err |-> "none", wrote |-> FALSE,
               pre |-> EmptyDb, post |-> EmptyDb, args |-> None, n |-> 0,
               prev |-> None]

NextPair ==
    /\ last.n < MaxPairCalls
    /\ \/ \E s, t \in SynsetIds(db), k \in {"hypernym", "similar", "also"},
            ai \in BOOLEAN :
             CallPair("add_synset_relation", RelArgs(s, k, t, ai),
                      add_synset_relation(db, s, k, t, ai))
       \/ \E s, t \in SynsetIds(db), k \in {"hypernym", "similar", "also"},
            ai \in BOOLEAN :
             CallPair("remove_synset_relation", RelArgs(s, k, t, ai),
                      remove_synset_relation(db, s, k, t, ai))
       \/ \E x, y \in SenseIds(db), k \in {"metaphor", "antonym"},
            ai \in BOOLEAN :
             CallPair("add_sense_relation", RelArgs(x, k, y, ai),
                      add_sense_relation(db, x, k, y, ai))
       \/ \E x, y \in SenseIds(db), k \in {"metaphor", "antonym"},
            ai \in BOOLEAN :
             CallPair("remove_sense_relation", RelArgs(x, k, y, ai),
                      remove_sense_relation(db, x, k, y, ai))

SpecPair == InitPair /\ [][NextPair]_vars

\* the last two calls were add_relation(a, R, b) and remove_relation(a, R, b)
\* with auto_inverse = True, and both returned
AddThenRemove ==
    /\ \/ /\ last.prev.op = "add_synset_relation"
          /\ last.op = "remove_synset_relation"
       \/ /\ last.prev.op = "add_sense_relation"
          /\ last.op = "remove_sense_relation"
    /\ last.prev.err = "none" /\ last.err = "none"
    /\ last.args = last.prev.args
    /\ last.args.auto_inverse

\* neither (a, R, b) nor its inverse row is stored in d
RelationAbsent(d, a) ==
    LET rels == d.synset_relations \cup d.sense_relations
        inverses == SYNSET_RELATION_INVERSES @@ SENSE_RELATION_INVERSES
    IN /\ ~HasRel(rels, a.source, a.kind, a.target)
       /\ a.kind \in DOMAIN inverses =>
             ~HasRel(rels, a.target, inverses[a.kind], a.source)

SameRelations(d1, d2) ==
    /\ d1.synset_relations = d2.synset_relations
    /\ d1.sense_relations = d2.sense_relations

\* C14 as stated: from any store, add_relation(a, R, b) followed by
\* remove_relation(a, R, b) leaves synset_relations and sense_relations with
\* the rows they held before the add.
C14_AddRemoveNoOp ==
    (last.op # "init" /\ AddThenRemove) => SameRelations(db, last.prev.pre)

\* C14 amended: the same, from a store that holds neither (a, R, b) nor its
\* inverse row.
C14_AddRemoveNoOpWhenAbsent ==
    (last.op # "init" /\ AddThenRemove
     /\ RelationAbsent(last.prev.pre, last.args)) =>
        SameRelations(db, last.prev.pre)

\* an add that stored a relation and its inverse, then the remove
C14_Witness ==
    /\ last.op # "init" /\ AddThenRemove
    /\ RelationAbsent(last.prev.pre, last.args)
    /\ last.args.kind = "hypernym"
    /\ ~SameRelations(last.pre, last.prev.pre)
    /\ SameRelations(db, last.prev.pre)

(***************************************************************************)
(* SpecMerge: merges from a store that holds, beside a lexicon made by the *)
(* public calls, an imported lexicon whose entry has two senses in one     *)
(* synset.  The formulas apply merge_synsets to the store of every state   *)
(* with every choice of arguments the action makes.                        *)
(***************************************************************************)
\* a file whose entry has two senses in the same synset
FileTwoSenses ==
    File(<<LexDict("b", "1",
            <<[id |-> SynsetId(BareRef("b"), 1, "n"), pos |-> "n", ili |-> "",
               lexicalized |-> TRUE, relations |-> {}]>>,
            <<[id |-> EntryId(BareRef("b"), "cat", "n", 1), lemma |-> "cat",
               pos |-> "n",
               senses |-> <<[id |-> generate_sense_id(
                                       EntryId(BareRef("b"), "cat", "n", 1),
                                       SynsetId(BareRef("b"), 1, "n"), 1),
                             synset |-> SynsetId(BareRef("b"), 1, "n")],
                            [id |-> generate_sense_id(
                                       EntryId(BareRef("b"), "cat", "n", 1),
                                       SynsetId(BareRef("b"), 1, "n"), 2),
                             synset |-> SynsetId(BareRef("b"), 1, "n")]>>]>>)>>)

SeedMerge ==
    LET d1 == add_sense(SeedSense, Cat, S1, None).db
        d2 == add_sense(d1, Dog, S1, None).db
    IN import_lmf(d2, FileTwoSenses).db

InitMerge ==
    /\ disk = SeedMerge
    /\ db = SeedMerge
    /\ in_batch = FALSE
    /\ batch_depth = 0
    /\ batch_base = EmptyDb
    /\ last = [op |-> "init", err |-> "none", wrote |-> FALSE,
               pre |-> EmptyDb, post |-> EmptyDb]

NextMerge ==
    /\ HistRows(db) < HistRows(SeedMerge) + MaxMergeCalls
    /\ \/ \E e \in EntryIds(db), s \in SynsetIds(db) :
             Call("add_sense", add_sense(db, e, s, None))
       \/ \E x \in SenseIds(db) : Call("remove_sense", remove_sense(db, x))
       \/ \E s, t \in SynsetIds(db) :
             Call("merge_synsets", merge_synsets(db, s, t))

SpecMerge == InitMerge /\ [][NextMerge]_vars

EntriesIn(d, synset_id) == {x.entry : x \in SensesOfSynset(d, synset_id)}

\* what C15 says of the result r of merge_synsets(s, t) on the store d, for
\* the entries of the set E
MergedSenses(d, s, t, r, E) ==
    /\ get_synset_row(r.db, s) = NULL
    /\ \A e \in E :
          Cardinality({x \in SensesOfSynset(r.db, t) : x.entry = e}) = 1
    /\ \A x \in SensesOfSynset(d, s) :
          IF x.entry \in EntriesIn(d, t)
          THEN get_sense_row(r.db, x.id) = NULL
          ELSE get_sense_row(r.db, x.id) = [x EXCEPT !.synset = t]

\* no entry has two senses in the synset
OneSenseEach(d, synset_id) ==
    \A x, y \in SensesOfSynset(d, synset_id) : x.entry = y.entry => x = y

\* C15 as stated: when merge_synsets(source, target) returns, the source
\* synset is gone, every entry that had a sense in source or target has
\* exactly one sense in target, and a sense of source is deleted when its
\* entry had a sense in target and is moved to target otherwise.
C15_MergeSenses ==
    \A s, t \in SynsetIds(db) :
       LET r == merge_synsets(db, s, t)
       IN r.err = "none" =>
            MergedSenses(db, s, t, r, EntriesIn(db, s) \cup EntriesIn(db, t))

\* C15 amended: the same, when before the merge no entry has two senses in
\* source and none has two senses in target.
C15_MergeSensesOfDistinctEntries ==
    \A s, t \in SynsetIds(db) :
       LET r == merge_synsets(db, s, t)
       IN (r.err = "none" /\ OneSenseEach(db, s) /\ OneSenseEach(db, t)) =>
            MergedSenses(db, s, t, r, EntriesIn(db, s) \cup EntriesIn(db, t))

\* a merge has deleted one sense of its source and moved another, no entry
\* having had two senses in the source or two in the target
C15_Witness ==
    /\ last.op = "merge_synsets" /\ last.err = "none"
    /\ \E s \in SynsetIds(last.pre) \ SynsetIds(db) :
          /\ OneSenseEach(last.pre, s)
          /\ \E x, y \in SensesOfSynset(last.pre, s) :
                /\ get_sense_row(db, x.id) = NULL
                /\ get_sense_row(db, y.id) # NULL
                /\ OneSenseEach(last.pre, get_sense_row(db, y.id).synset)

FileSplit1 ==
    File(<<LexDict("a", "1",
            <<[id |-> S1, pos |-> "n", ili |-> "", lexicalized |-> TRUE,
               relations |-> {}]>>,
            <<[id |-> Cat, lemma |-> "cat", pos |-> "n",
               senses |-> <<[id |-> generate_sense_id(Cat, S1, 1),
                             synset |-> S1]>>],
              [id |-> Dog, lemma |-> "dog", pos |-> "n",
               senses |-> <<[id |-> generate_sense_id(Dog, S1, 1),
                             synset |-> S1]>>]>>)>>)

FileSplit2 ==
    File(<<LexDict("a", "2",
            <<[id |-> S2, pos |-> "n", ili |-> "", lexicalized |-> TRUE,
               relations |-> {}]>>,
            <<>>)>>)

SeedSplit == import_lmf(import_lmf(EmptyDb, FileSplit1).db, FileSplit2).db

SplitArgs(synset_id, sense_groups) ==
    [synset_id |-> synset_id, sense_groups |-> sense_groups]

CallArgs(op, args, r) ==
    /\ LET st == modifies_db(in_batch, disk, r)
       IN /\ disk' = st.disk
          /\ db' = st.db
    /\ last' = [op |-> op, err |-> r.err, wrote |-> r.db # db, pre |-> db,
                post |-> EmptyDb, args |-> args]
    /\ UNCHANGED <<in_batch, batch_depth, batch_base>>

\* the lists of one to MaxGroups sets of the sense ids X
GroupLists(X) == UNION {[1..n -> SUBSET X] : n \in 1..MaxGroups}

InitSplit ==
    /\ disk = SeedSplit
    /\ db = SeedSplit
    /\ in_batch = FALSE
    /\ batch_depth = 0
    /\ batch_base = EmptyDb
    /\ last = [op |-> "init", err |-> "none", wrote |-> FALSE,
               pre |-> EmptyDb, post |-> EmptyDb, args |-> None]

NextSplit ==
    /\ HistRows(db) < HistRows(SeedSplit) + MaxSplitCalls
    /\ \/ \E s \in SynsetIds(db), g \in GroupLists(SenseIds(db)) :
             CallArgs("split_synset", SplitArgs(s, g), split_synset(db, s, g))
       \/ \E x \in SenseIds(db), s \in SynsetIds(db) :
             CallArgs("move_sense", [sense_id |-> x, target_synset_id |-> s],
                      move_sense(db, x, s))

SpecSplit == InitSplit /\ [][NextSplit]_vars

\* the groups partition the senses of the synset: two groups at least, no
\* sense in two groups, every sense of the synset in a group and no other
Partitions(d, synset_id, sense_groups) ==
    /\ Len(sense_groups) >= 2
    /\ \A i, j \in DOMAIN sense_groups :
          i # j => sense_groups[i] \cap sense_groups[j] = {}
    /\ UNION {sense_groups[i] : i \in DOMAIN sense_groups}
          = {x.id : x \in SensesOfSynset(d, synset_id)}

\* C17: a call of split_synset on a synset of the store whose sense_groups
\* do not partition the senses of the synset raises ValidationError and
\* leaves the store as it was.
C17_SplitValidates ==
    (/\ last.op = "split_synset"
     /\ ~Partitions(last.pre, last.args.synset_id, last.args.sense_groups)) =>
        /\ last.err = "ValidationError"
        /\ db = last.pre
        /\ disk = last.pre

\* split_synset was called with one group that holds every sense of the
\* synset, the synset having a sense
C17_Witness ==
    /\ last.op = "split_synset"
    /\ Len(last.args.sense_groups) = 1
    /\ last.args.sense_groups[1] # {}
    /\ last.args.sense_groups[1] =
          {x.id : x \in SensesOfSynset(last.pre, last.args.synset_id)}
    /\ last.err = "ValidationError"

\* the synsets the call has added to the store
FreshSynsets == db.synsets \ last.pre.synsets

\* C18: when split_synset(s, [g1, ..., gk]) returns, the senses of g1 are
\* on s; the later groups have each a synset of their own that the call
\* created, in the lexicon of s and with its part of speech, whose id no
\* other synset has and whose senses are the senses of the group; and the
\* store has the senses it had, each once.
C18_SplitMovesGroups ==
    (last.op = "split_synset" /\ last.err = "none") =>
       LET s == last.args.synset_id
           g == last.args.sense_groups
           row == get_synset_row(last.pre, s)
       IN /\ \A x \in g[1] : get_sense_row(db, x).synset = s
          /\ \E f \in [2..Len(g) -> FreshSynsets] :
                /\ \A i, j \in 2..Len(g) : f[i] = f[j] => i = j
                /\ \A i \in 2..Len(g) :
                      /\ f[i].lexicon = row.lexicon
                      /\ f[i].pos = row.pos
                      /\ f[i].id \notin SynsetIds(last.pre)
                      /\ {x.id : x \in SensesOfSynset(db, f[i].id)} = g[i]
          /\ SenseIds(db) = SenseIds(last.pre)
          /\ Cardinality(db.senses) = Cardinality(last.pre.senses)

(***************************************************************************)
(* SpecDel: deletions from a store that holds relations.  The store starts *)
(* as these calls leave it: one lexicon, three synsets, two entries with a *)
(* sense each, S1 hypernym S2 and its inverse, S3 also S1, the sense of    *)
(* cat antonym the sense of dog and its inverse, the sense of dog metaphor *)
(* the sense of cat without inverse.  Calls run outside batches.           *)
(***************************************************************************)
S3 == SynsetId(BareRef("a"), 3, "n")
SenseCat == generate_sense_id(Cat, S1, 1)
SenseDog == generate_sense_id(Dog, S2, 1)

SeedDel ==
    LET d1 == create_entry(SeedSynsets, BareRef("a"), "cat", "n", None).db
        d2 == create_entry(d1, BareRef("a"), "dog", "n", None).db
        d3 == add_sense(add_sense(d2, Cat, S1, None).db, Dog, S2, None).db
        d4 == add_synset_relation(d3, S1, "hypernym", S2, TRUE).db
        d5 == add_synset_relation(d4, S3, "also", S1, TRUE).db
        d6 == add_sense_relation(d5, SenseCat, "antonym", SenseDog, TRUE).db
    IN add_sense_relation(d6, SenseDog, "metaphor", SenseCat, FALSE).db

InitDel ==
    /\ disk = SeedDel
    /\ db = SeedDel
    /\ in_batch = FALSE
    /\ batch_depth = 0
    /\ batch_base = EmptyDb
    /\ last = [op |-> "init", err |-> "none", wrote |-> FALSE,
               pre |-> EmptyDb, post |-> EmptyDb]

NextDel ==
    /\ HistRows(db) < HistRows(SeedDel) + MaxDelCalls
    /\ \/ \E s \in SynsetIds(db), cascade \in BOOLEAN :
             Call("delete_synset", delete_synset(db, s, cascade))
       \/ \E x \in SenseIds(db) : Call("remove_sense", remove_sense(db, x))
       \/ \E e \in EntryIds(db), cascade \in BOOLEAN :
             Call("delete_entry", delete_entry(db, e, cascade))
       \/ Call("delete_lexicon", delete_lexicon(db, BareRef("a")))
       \/ \E s, t \in SynsetIds(db) :
             Call("merge_synsets", merge_synsets(db, s, t))
       \/ \E e \in EntryIds(db), s \in SynsetIds(db) :
             Call("add_sense", add_sense(db, e, s, None))
       \/ \E x, y \in SenseIds(db) :
             Call("add_sense_relation",
                  add_sense_relation(db, x, "antonym", y, TRUE))

SpecDel == InitDel /\ [][NextDel]_vars

\* the rows of rels that have an id of X as source or target
RelationsOf(rels, X) == {r \in rels : r.source \in X \/ r.target \in X}

\* C19: when a call has deleted synsets or senses, by itself or through a
\* cascade, the store holds no relation with one of them as source or
\* target, and no inverse row of a relation they had.
C19_NoRelationOfDeleted ==
    LET synsets == SynsetIds(last.pre) \ SynsetIds(db)
        senses == SenseIds(last.pre) \ SenseIds(db)
    IN /\ RelationsOf(db.synset_relations, synsets) = {}
       /\ RelationsOf(db.sense_relations, senses) = {}
       /\ \A q \in RelationsOf(last.pre.synset_relations, synsets) :
             q.kind \in DOMAIN SYNSET_RELATION_INVERSES =>
                ~HasRel(db.synset_relations, q.target,
                        SYNSET_RELATION_INVERSES[q.kind], q.source)
       /\ \A q \in RelationsOf(last.pre.sense_relations, senses) :
             q.kind \in DOMAIN SENSE_RELATION_INVERSES =>
                ~HasRel(db.sense_relations, q.target,
                        SENSE_RELATION_INVERSES[q.kind], q.source)

\* delete_synset with cascade has deleted a synset that had a relation with
\* its inverse and a sense that had a relation with its inverse
C19_Witness ==
    /\ last.op = "delete_synset" /\ last.err = "none"
    /\ \E q \in RelationsOf(last.pre.synset_relations,
                             SynsetIds(last.pre) \ SynsetIds(db)) :
          /\ q.kind = "hypernym"
          /\ HasRel(last.pre.synset_relations, q.target, "hyponym", q.source)
    /\ \E q \in RelationsOf(last.pre.sense_relations,
                             SenseIds(last.pre) \ SenseIds(db)) :
          /\ q.kind = "antonym"
          /\ HasRel(last.pre.sense_relations, q.target, "antonym", q.source)

\* C20: when remove_sense or move_sense has returned and a synset that had a
\* sense before the call has none after it, the synset carries the
\* unlexicalized mark.
C20_EmptiedSynsetUnlexicalized ==
    (last.op \in {"remove_sense", "move_sense"} /\ last.err = "none") =>
       \A s \in SynsetIds(db) :
          (SensesOfSynset(last.pre, s) # {} /\ SensesOfSynset(db, s) = {}) =>
             s \in db.unlexicalized_synsets

\* move_sense has taken the only sense of a synset that was not marked
C20_Witness ==
    /\ last.op = "move_sense" /\ last.err = "none"
    /\ \E s \in SynsetIds(db) :
          /\ SensesOfSynset(last.pre, s) # {}
          /\ s \notin last.pre.unlexicalized_synsets
          /\ SensesOfSynset(db, s) = {}
          /\ s \in db.unlexicalized_synsets

\* the synset has a real ILI or a proposed one
HasIliBinding(d, synset_id) ==
    \/ get_synset_row(d, synset_id).ili # NullIli
    \/ synset_id \in d.proposed_ilis

\* C21: merge_synsets(source, target) with a source and a target that both
\* have an ILI binding, real or proposed, raises ConflictError and leaves
\* the store as it was.
C21_MergeRefusesTwoIliBindings ==
    \A s, t \in SynsetIds(db) :
       (HasIliBinding(db, s) /\ HasIliBinding(db, t)) =>
          /\ merge_synsets(db, s, t).err = "ConflictError"
          /\ merge_synsets(db, s, t).db = db
          /\ modifies_db(FALSE, disk, merge_synsets(db, s, t)).db = disk

\* merge_synsets has raised ConflictError on a synset with a real ILI and a
\* synset with a proposed one, and the store is as before the call
C21_Witness ==
    /\ last.op = "merge_synsets" /\ last.err = "ConflictError"
    /\ ~last.wrote
    /\ db = disk
    /\ \E s, t \in SynsetIds(db) :
          /\ get_synset_row(db, s).ili # NullIli
          /\ t \in db.proposed_ilis

\* C22: link_ili and propose_ili on a synset that has a real or a proposed
\* ILI raise ValidationError and leave the store, the binding with it, as
\* it was; so they return normally only on a synset without a binding.
C22_IliCallsRefuseBoundSynset ==
    \A s \in SynsetIds(db) :
       HasIliBinding(db, s) =>
          /\ \A i \in {"i1", "i2"} :
                /\ link_ili(db, s, i).err = "ValidationError"
                /\ link_ili(db, s, i).db = db
          /\ \A n \in {MinIliDefinition - 1, MinIliDefinition} :
                /\ propose_ili(db, s, n).err = "ValidationError"
                /\ propose_ili(db, s, n).db = db

\* link_ili has raised ValidationError in a store that has a synset with a
\* real ILI and none with a proposed ILI
C22_Witness ==
    /\ last.op = "link_ili" /\ last.err = "ValidationError"
    /\ db.proposed_ilis = {}
    /\ \E s \in db.synsets : s.ili # NullIli
    /\ db = disk

(***************************************************************************)
(* SpecVer: deletions in a store that holds two versions of one lexicon,   *)
(* as two imports leave it.  Both versions have the entry a-cat-n; one     *)
(* version has the synset S1 and a sense of its entry in it, the other     *)
(* has the synset S2 and no sense.  The store starts with the sense in     *)
(* version 1 or in version 2.                                              *)
(***************************************************************************)
FileVerSense(version) ==
    File(<<LexDict("a", version,
            <<[id |-> S1, pos |-> "n", ili |-> "", lexicalized |-> TRUE,
               relations |-> {}]>>,
            <<[id |-> Cat, lemma |-> "cat", pos |-> "n",
               senses |-> <<[id |-> generate_sense_id(Cat, S1, 1),
                             synset |-> S1]>>]>>)>>)

FileVerNoSense(version) ==
    File(<<LexDict("a", version,
            <<[id |-> S2, pos |-> "n", ili |-> "", lexicalized |-> FALSE,
               relations |-> {}]>>,
            <<[id |-> Cat, lemma |-> "cat", pos |-> "n", senses |-> <<>>]>>)>>)

SeedVer(version) ==
    IF version = "1"
    THEN import_lmf(import_lmf(EmptyDb, FileVerSense("1")).db,
                    FileVerNoSense("2")).db
    ELSE import_lmf(import_lmf(EmptyDb, FileVerNoSense("1")).db,
                    FileVerSense("2")).db

InitVer ==
    /\ \E v \in {"1", "2"} : disk = SeedVer(v) /\ db = SeedVer(v)
    /\ in_batch = FALSE
    /\ batch_depth = 0
    /\ batch_base = EmptyDb
    /\ last = [op |-> "init", err |-> "none", wrote |-> FALSE,
               pre |-> EmptyDb, post |-> EmptyDb]

NextVer ==
    /\ HistRows(db) < HistRows(SeedVer("1")) + MaxVerCalls
    /\ \/ \E s \in SynsetIds(db), cascade \in BOOLEAN :
             Call("delete_synset", delete_synset(db, s, cascade))
       \/ \E e \in EntryIds(db), cascade \in BOOLEAN :
             Call("delete_entry", delete_entry(db, e, cascade))
       \/ \E x \in SenseIds(db) : Call("remove_sense", remove_sense(db, x))
       \/ \E f \in {FileB, FileMarked} : Call("import_lmf", import_lmf(db, f))

SpecVer == InitVer /\ [][NextVer]_vars

\* C23: delete_synset and delete_entry without cascade, on a synset or an
\* entry that owns at least one sense, raise RelationError and leave the
\* store as it was.
C23_DeleteRefusesOwnerOfSenses ==
    /\ \A s \in SynsetIds(db) :
          SensesOfSynset(db, s) # {} =>
             /\ delete_synset(db, s, FALSE).err = "RelationError"
             /\ delete_synset(db, s, FALSE).db = db
             /\ modifies_db(FALSE, disk, delete_synset(db, s, FALSE)).db = disk
    /\ \A e \in db.entries :
          SensesOfEntryRow(db, e) # {} =>
             /\ delete_entry(db, e.id, FALSE).err = "RelationError"
             /\ delete_entry(db, e.id, FALSE).db = db
             /\ modifies_db(FALSE, disk, delete_entry(db, e.id, FALSE)).db
                   = disk

\* what the store d holds of the lexicon row L, whose synsets and entries
\* were those of the store pre: the row, its synsets, entries and senses,
\* the forms of its entries, its definitions and the relations it owns or
\* that have one of its synsets or senses as an endpoint
OwnedBy(d, pre, L) ==
    LET synsets == {s.id : s \in {y \in pre.synsets : y.lexicon = L}}
        entries == {e.id : e \in {y \in pre.entries : y.lexicon = L}}
        senses == {x.id : x \in {y \in pre.senses : y.lexicon = L}}
    IN [lexicons |-> d.lexicons \cap {L},
        synsets |-> {s \in d.synsets : s.lexicon = L},
        entries |-> {e \in d.entries : e.lexicon = L},
        senses |-> {x \in d.senses : x.lexicon = L},
        forms |-> {f \in BagToSet(d.forms) : f.entry \in entries},
        definitions |-> {f \in BagToSet(d.definitions) : f.lexicon = L},
        synset_relations |->
            {r \in d.synset_relations : r.lexicon = L}
               \cup RelationsOf(d.synset_relations, synsets),
        sense_relations |->
            {r \in d.sense_relations : r.lexicon = L}
               \cup RelationsOf(d.sense_relations, senses)]

\* C24: when delete_lexicon returns, the store holds nothing of the lexicon
\* it was given: not the lexicon, none of its synsets, entries, senses,
\* forms, definitions or relations.
C24_DeleteLexiconCascades ==
    \A ref \in LexRefs :
       LET L == get_lexicon_row(db, ref)
           r == delete_lexicon(db, ref)
       IN r.err = "none" =>
             \A t \in DOMAIN OwnedBy(r.db, db, L) :
                OwnedBy(r.db, db, L)[t] = {}

\* C25: create_lexicon with the bare id of a lexicon of the store, in the
\* version the store has or in another one, raises DuplicateEntityError and
\* leaves the store as it was.
C25_CreateLexiconRefusesBareId ==
    \A id \in LexIds, version \in Versions :
       (\E l \in db.lexicons : l.id = id) =>
          /\ create_lexicon(db, id, version).err = "DuplicateEntityError"
          /\ create_lexicon(db, id, version).db = db

\* C26: for a lexicon of the store that its bare id names, create_synset,
\* create_entry and delete_lexicon called with the specifier "id:version"
\* end as they do with the bare id: the same exception or none, and the
\* same store.
C26_SpecifierSameAsBareId ==
    \A l \in db.lexicons :
       get_lexicon_row(db, BareRef(l.id)) = l =>
          /\ create_synset(db, l, "n", "d", None, NoIli, NoDefinition, TRUE)
                = create_synset(db, BareRef(l.id), "n", "d", None, NoIli,
                                NoDefinition, TRUE)
          /\ create_entry(db, l, "cat", "n", None)
                = create_entry(db, BareRef(l.id), "cat", "n", None)
          /\ delete_lexicon(db, l) = delete_lexicon(db, BareRef(l.id))

(***************************************************************************)
(* SpecEntry: entry ids.  The store starts with one lexicon; entries are   *)
(* created without an id, for lemmas of which two have the same normalized *)
(* form and two differ by "_" against "-", and with an id of the caller:   *)
(* a numbered one or one that ends in a text; entries are deleted.         *)
(***************************************************************************)
EntryLemmas == {"cat", "Cat", "foo bar", "foo-bar"}

CallerEntryIds ==
    {EntryId(BareRef("a"), "cat", "n", 3)}
       \cup {TextEntryId(BareRef("a"), "cat", "n", t) : t \in SuffixTexts}

SeedEntry == create_lexicon(EmptyDb, "a", "1").db

InitEntry ==
    /\ disk = SeedEntry
    /\ db = SeedEntry
    /\ in_batch = FALSE
    /\ batch_depth = 0
    /\ batch_base = EmptyDb
    /\ last = [op |-> "init", err |-> "none", wrote |-> FALSE,
               pre |-> EmptyDb, post |-> EmptyDb]

NextEntry ==
    /\ HistRows(db) < HistRows(SeedEntry) + MaxEntryCalls
    /\ \/ \E lemma \in EntryLemmas :
             Call("create_entry",
                  create_entry(db, BareRef("a"), lemma, "n", None))
       \/ \E id \in CallerEntryIds :
             Call("create_entry_id",
                  create_entry(db, BareRef("a"), "cat", "n", id))
       \/ \E e \in EntryIds(db) :
             Call("delete_entry", delete_entry(db, e, FALSE))

SpecEntry == InitEntry /\ [][NextEntry]_vars

\* C27: create_entry without an id returns, and the id of the new entry is
\* the base id "{lexicon}-{normalized}-{pos}" when no entry has it, else
\* "{base}-{n}" for the smallest n from 2 on that no entry has; the ids of
\* another base count for nothing.  The base id is the id numbered 1.
C27_EntryIdSmallestUnused ==
    \A lemma \in EntryLemmas :
       LET r == create_entry(db, BareRef("a"), lemma, "n", None)
           unused(n) ==
              EntryId(BareRef("a"), normalized(lemma), "n", n)
                 \notin EntryIds(db)
       IN /\ r.err = "none"
          /\ \E n \in 1..(Cardinality(db.entries) + 1) :
                /\ EntryIds(r.db) \ EntryIds(db)
                      = {EntryId(BareRef("a"), normalized(lemma), "n", n)}
                /\ unused(n)
                /\ \A k \in 1..(n - 1) : ~unused(k)

(***************************************************************************)
(* SpecOrder: the order of the senses of an entry.  The store starts with  *)
(* one lexicon, its synsets, the entry cat with a sense in S1 and one in   *)
(* S2 and the entry dog with a sense in S1.  last records the arguments    *)
(* of the call.                                                            *)
(***************************************************************************)
SeedOrder ==
    LET d1 == create_entry(SeedSynsets, BareRef("a"), "cat", "n", None).db
        d2 == create_entry(d1, BareRef("a"), "dog", "n", None).db
        d3 == add_sense(add_sense(d2, Cat, S1, None).db, Cat, S2, None).db
    IN add_sense(d3, Dog, S1, None).db

\* the lists of at most MaxOrder ids of X
OrderLists(X) == UNION {[1..n -> X] : n \in 0..MaxOrder}

InitOrder ==
    /\ disk = SeedOrder
    /\ db = SeedOrder
    /\ in_batch = FALSE
    /\ batch_depth = 0
    /\ batch_base = EmptyDb
    /\ last = [op |-> "init", err |-> "none", wrote |-> FALSE,
               pre |-> EmptyDb, post |-> EmptyDb, args |-> None]

NextOrder ==
    /\ HistRows(db) < HistRows(SeedOrder) + MaxOrderCalls
    /\ \/ \E e \in EntryIds(db), o \in OrderLists(SenseIds(db)) :
             CallArgs("reorder_senses",
                      [entry_id |-> e, sense_id_order |-> o],
                      reorder_senses(db, e, o))
       \/ \E e \in EntryIds(db), s \in SynsetIds(db) :
             CallArgs("add_sense", [entry_id |-> e, synset_id |-> s],
                      add_sense(db, e, s, None))
       \/ \E x \in SenseIds(db) :
             CallArgs("remove_sense", [sense_id |-> x], remove_sense(db, x))

SpecOrder == InitOrder /\ [][NextOrder]_vars

\* C28: when reorder_senses(entry, order) has returned, find_senses of the
\* entry returns the senses in the order of the list, with the entry ranks
\* 1, 2, ... n.
C28_ReorderSetsOrder ==
    (last.op = "reorder_senses" /\ last.err = "none") =>
       \A q \in find_senses(db, last.args.entry_id) :
          /\ [i \in DOMAIN q |-> q[i].id] = last.args.sense_id_order
          /\ \A i \in DOMAIN q : q[i].entry_rank = i

(***************************************************************************)
(* SpecDup: relations added again.  The store starts with one lexicon, two *)
(* synsets, an entry with a sense in each and S1 hypernym S2 without its   *)
(* inverse; relations are added and removed and a file with a synset that  *)
(* is related to itself is imported.  last records the arguments of the    *)
(* call and the store before it.                                           *)
(***************************************************************************)
InitDup ==
    /\ disk = SeedPair
    /\ db = SeedPair
    /\ in_batch = FALSE
    /\ batch_depth = 0
    /\ batch_base = EmptyDb
    /\ last = [op |-> "init", err |-> "none", wrote |-> FALSE,
               pre |-> EmptyDb, post |-> EmptyDb, args |-> None]

NextDup ==
    /\ HistRows(db) < HistRows(SeedPair) + MaxDupCalls
    /\ \/ \E s, t \in SynsetIds(db), k \in {"hypernym", "similar", "also"},
            ai \in BOOLEAN :
             CallArgs("add_synset_relation", RelArgs(s, k, t, ai),
                      add_synset_relation(db, s, k, t, ai))
       \/ \E s, t \in SynsetIds(db), k \in {"hypernym", "similar", "also"},
            ai \in BOOLEAN :
             CallArgs("remove_synset_relation", RelArgs(s, k, t, ai),
                      remove_synset_relation(db, s, k, t, ai))
       \/ \E x, y \in SenseIds(db), k \in {"metaphor", "antonym"},
            ai \in BOOLEAN :
             CallArgs("add_sense_relation", RelArgs(x, k, y, ai),
                      add_sense_relation(db, x, k, y, ai))
       \/ CallArgs("import_lmf", [source |-> FileLoop],
                   import_lmf(db, FileLoop))

SpecDup == InitDup /\ [][NextDup]_vars

\* the rows of rels for the triple
RowsFor(rels, source, kind, target) ==
    {r \in rels : r.source = source /\ r.kind = kind /\ r.target = target}

\* the call r, made on the store d for a triple that d has in the table
\* rels with the catalog INVERSES, returned and left the table with the one
\* row it had for the triple and, if d had the inverse row, with the one
\* row it had for that
AddIgnored(d, r, rels, INVERSES, source, kind, target) ==
    /\ r.err = "none"
    /\ RowsFor(r.db[rels], source, kind, target)
          = RowsFor(d[rels], source, kind, target)
    /\ Cardinality(RowsFor(r.db[rels], source, kind, target)) = 1
    /\ kind \in DOMAIN INVERSES =>
          (HasRel(d[rels], target, INVERSES[kind], source) =>
              /\ RowsFor(r.db[rels], target, INVERSES[kind], source)
                    = RowsFor(d[rels], target, INVERSES[kind], source)
              /\ Cardinality(RowsFor(r.db[rels], target, INVERSES[kind],
                                     source)) = 1)

C30_RemoveAbsentNoOp ==
    /\ \A s, t \in SynsetIds(db), k \in SYNSET_RELATIONS, ai \in BOOLEAN :
          ~HasRel(db.synset_relations, s, k, t) =>
             remove_synset_relation(db, s, k, t, ai) = Return(db)
    /\ \A x, y \in SenseIds(db), k \in SENSE_RELATIONS, ai \in BOOLEAN :
          ~HasRel(db.sense_relations, x, k, y) =>
             remove_sense_relation(db, x, k, y, ai) = Return(db)
(***************************************************************************)
(* C31: the minimum length of a proposed ILI's definition (SpecIli).       *)
(***************************************************************************)
\* C31: for every synset of the store, propose_ili with a definition of
\* MinIliDefinition - 1 characters raises ValidationError and leaves the
\* store as it was; with a definition of MinIliDefinition characters, for a
\* synset that has neither an ILI nor a proposal, it returns and
\* get_synset(s).ili is "in" afterwards.
C31_ProposeIliMinimumLength ==
    \A s \in SynsetIds(db) :
        LET row == get_synset_row(db, s)
            short == propose_ili(db, s, MinIliDefinition - 1)
            long == propose_ili(db, s, MinIliDefinition)
        IN /\ short.err = "ValidationError"
           /\ short.db = db
           /\ (row.ili = NullIli /\ s \notin db.proposed_ilis)
                 => /\ long.err = "none"
                    /\ get_synset_ili(long.db, s) = "in"

\* propose_ili has returned, a synset reads "in", and another synset that has
\* neither an ILI nor a proposal is there to refuse the short definition
C31_Witness ==
    /\ last.op = "propose_ili" /\ last.err = "none" /\ last.wrote
    /\ \E s \in SynsetIds(db) : get_synset_ili(db, s) = "in"
    /\ \E s \in db.synsets : s.ili = NullIli /\ s.id \notin db.proposed_ilis
(***************************************************************************)
(* C32: an exception that leaves a nested batch scope (Spec).              *)
(***************************************************************************)
\* C32: when an exception leaves a nested batch scope (depth greater than
\* 1) it reaches the caller and the writes of the batch are rolled back: the
\* connection's view is the store as it was when the batch was opened, so a
\* later normal exit of the enclosing scope has none of them to commit.
C32_NestedRaiseRollsBack ==
    [][(batch_depth > 1 /\ last'.op = "batch_raise") =>
          /\ db' = batch_base
          /\ last'.err # "none"]_vars
(***************************************************************************)
(* C33: cascading deletes and the unlexicalized mark (SpecLex).            *)
(***************************************************************************)
\* the synsets of d1 that had a sense in d and have none in d1
Emptied(d, d1) ==
    {s \in SynsetIds(d1) :
        SensesOfSynset(d, s) # {} /\ SensesOfSynset(d1, s) = {}}

\* C33: when delete_entry with cascade or delete_lexicon returns, every
\* synset that survives the delete and lost its last sense to it carries the
\* unlexicalized mark.
C33_CascadeMarksEmptiedSynsets ==
    /\ \A e \in EntryIds(db) :
          LET r == delete_entry(db, e, TRUE)
          IN r.err = "none" =>
                Emptied(db, r.db) \subseteq r.db.unlexicalized_synsets
    /\ \A ref \in LexRefs :
          LET r == delete_lexicon(db, ref)
          IN r.err = "none" =>
                Emptied(db, r.db) \subseteq r.db.unlexicalized_synsets
(***************************************************************************)
(* C34: one CREATE or DELETE history row per entity (Spec).                *)
(***************************************************************************)
EntityKinds == {"lexicon", "synset", "entry", "sense"}

\* the rows of a kind of entity, each named by its id and its lexicon
Entities(d, t) ==
    CASE t = "lexicon" -> d.lexicons
      [] t = "synset" -> {[id |-> s.id, lexicon |-> s.lexicon] : s \in d.synsets}
      [] t = "entry" -> {[id |-> e.id, lexicon |-> e.lexicon] : e \in d.entries}
      [] t = "sense" -> {[id |-> x.id, lexicon |-> x.lexicon] : x \in d.senses}

\* the history rows of kind t and operation o that d1 has and d has not
Recorded(d, d1, t, o) ==
    CopiesIn(HistRow(t, o), d1.edit_history)
        - CopiesIn(HistRow(t, o), d.edit_history)

\* C34: a public mutation that returns has recorded, for every kind of
\* entity, as many CREATE rows as it created entities of the kind and as
\* many DELETE rows as it deleted, cascades and merge_synsets included.
C34_OneHistoryRowPerEntity ==
    [][(IsCall(last') /\ last'.err = "none") =>
          \A t \in EntityKinds :
             /\ Recorded(db, db', t, "CREATE")
                   = Cardinality(Entities(db', t) \ Entities(db, t))
             /\ Recorded(db, db', t, "DELETE")
                   = Cardinality(Entities(db, t) \ Entities(db', t))]_vars
(***************************************************************************)
(* C35: the forms of an entry are unique by text and script (SpecForm).    *)
(***************************************************************************)
\* the number of rows of forms the entry has with the text and the script
SameForm(d, entry_id, written_form, script) ==
    BagCardinality(
        [x \in {y \in FormsOf(d, entry_id) :
                  y.form = written_form /\ y.script = script} |-> d.forms[x]])

\* C35: no entry has two forms with the same written form and script, a
\* script left out included, and add_form never returns when the entry
\* already has a form (the lemma included) with the written form and script
\* it was given.
C35_FormsUniquePerEntry ==
    /\ \A x \in BagToSet(db.forms) : SameForm(db, x.entry, x.form, x.script) = 1
    /\ \A e \in EntryIds(db), w \in {"cat", "kat"}, script \in {"NULL", "Latn"} :
          SameForm(db, e, w, script) > 0 => add_form(db, e, w, script).err # "none"
(***************************************************************************)
(* SpecDef: the definitions of merged synsets.  The store starts with one  *)
(* lexicon; synsets are created with definition texts that differ in blanks *)
(* only, are empty, or are different.  Calls run outside batches.          *)
(***************************************************************************)
DefinitionTexts == {"d", " d", "x", "", " "}

SeedDef == create_lexicon(EmptyDb, "a", "1").db

InitDef ==
    /\ disk = SeedDef
    /\ db = SeedDef
    /\ in_batch = FALSE
    /\ batch_depth = 0
    /\ batch_base = EmptyDb
    /\ last = [op |-> "init", err |-> "none", wrote |-> FALSE,
               pre |-> EmptyDb, post |-> EmptyDb]

NextDef ==
    /\ HistRows(db) < HistRows(SeedDef) + MaxDefCalls
    /\ \/ \E text \in DefinitionTexts :
             Call("create_synset",
                  create_synset(db, BareRef("a"), "n", text, None, NoIli,
                                NoDefinition, TRUE))
       \/ \E s, t \in SynsetIds(db) :
             Call("merge_synsets", merge_synsets(db, s, t))

SpecDef == InitDef /\ [][NextDef]_vars

\* the definitions of the source whose trimmed text is not the trimmed text
\* of a definition of the target
Carried(defs, src, tgt) ==
    {x \in BagToSet(defs) :
        /\ x.synset = src
        /\ strip(x.text) \notin
              {strip(y.text) : y \in {z \in BagToSet(defs) : z.synset = tgt}}}

\* C36: after merge_synsets(source, target) has returned, the target has
\* each of its previous definitions, each definition of the source whose
\* trimmed text is not the trimmed text of a previous definition of the
\* target, and no other.
C36_MergeCarriesDefinitions ==
    \A s, t \in SynsetIds(db) :
        LET r == merge_synsets(db, s, t)
            old == db.definitions
            new == r.db.definitions
            rows == {z \in BagToSet(new) : z.synset = t}
                      \cup {[x EXCEPT !.synset = t] : x \in
                               {y \in BagToSet(old) : y.synset \in {s, t}}}
        IN (s # t /\ r.err = "none") =>
              \A z \in rows :
                 LET x == [z EXCEPT !.synset = s]
                 IN CopiesIn(z, new) =
                       CopiesIn(z, old) +
                       (IF x \in Carried(old, s, t)
                        THEN CopiesIn(x, old) ELSE 0)
(***************************************************************************)
(* C37: the edit history is append-only (Spec).                            *)
(***************************************************************************)
\* C37: no step takes a row out of the committed history: after every
\* operation the committed history has every row it had before, as many
\* times.
C37_HistoryAppendOnly ==
    [][\A h \in BagToSet(disk.edit_history) :
          CopiesIn(h, disk'.edit_history) >= CopiesIn(h, disk.edit_history)]_vars

\* delete_lexicon has emptied the store and the committed history still has
\* the rows of what was created
C37_Witness ==
    /\ last.op = "delete_lexicon" /\ last.err = "none" /\ last.wrote
    /\ ~in_batch /\ disk = db
    /\ disk.lexicons = {} /\ disk.synsets = {}
    /\ CopiesIn(HistRow("lexicon", "CREATE"), disk.edit_history) > 0
    /\ CopiesIn(HistRow("synset", "CREATE"), disk.edit_history) > 0
(***************************************************************************)
(* C38: merge_synsets of a synset into itself (Spec).                      *)
(***************************************************************************)
\* the definitions of a synset, with the number of rows of each
DefinitionsOf(d, synset_id) ==
    [x \in {y \in BagToSet(d.definitions) : y.synset = synset_id}
        |-> d.definitions[x]]

\* C38: after merge_synsets(s, s), in a batch or outside one, whether the
\* call raised or returned, the connection's view still has the synset s,
\* all its senses and all its definitions.
C38_SelfMergeKeepsData ==
    \A s \in SynsetIds(db) :
        LET st == modifies_db(in_batch, disk, merge_synsets(db, s, s))
        IN /\ s \in SynsetIds(st.db)
           /\ SensesOfSynset(st.db, s) = SensesOfSynset(db, s)
           /\ DefinitionsOf(st.db, s) = DefinitionsOf(db, s)
(***************************************************************************)
(* SpecAuto: the ids add_sense generates.  The store starts as in          *)
(* SpecOrder; senses are added without an id, removed, moved to another    *)
(* synset, and the senses of an entry are put in another order.            *)
(***************************************************************************)
\* the lists that name every sense of the entry once
Orders(d, entry_id) ==
    LET X == {x.id : x \in SensesOfEntry(d, entry_id)}
    IN {o \in OrderLists(X) :
           Len(o) = Cardinality(X) /\ {o[i] : i \in 1..Len(o)} = X}

InitAuto ==
    /\ disk = SeedOrder
    /\ db = SeedOrder
    /\ in_batch = FALSE
    /\ batch_depth = 0
    /\ batch_base = EmptyDb
    /\ last = [op |-> "init", err |-> "none", wrote |-> FALSE,
               pre |-> EmptyDb, post |-> EmptyDb]

NextAuto ==
    /\ HistRows(db) < HistRows(SeedOrder) + MaxAutoCalls
    /\ \/ \E e \in EntryIds(db), s \in SynsetIds(db) :
             Call("add_sense", add_sense(db, e, s, None))
       \/ \E x \in SenseIds(db) : Call("remove_sense", remove_sense(db, x))
       \/ \E x \in SenseIds(db), s \in SynsetIds(db) :
             Call("move_sense", move_sense(db, x, s))
       \/ \E e \in EntryIds(db) : \E o \in Orders(db, e) :
             Call("reorder_senses", reorder_senses(db, e, o))

SpecAuto == InitAuto /\ [][NextAuto]_vars

\* C39: add_sense without an id returns for every entry and synset of the
\* store such that the entry has no sense in the synset: the id it generates
\* is the id of no sense of the store.
C39_AutoSenseIdIsFresh ==
    \A e \in EntryIds(db), s \in SynsetIds(db) :
        (~\E x \in db.senses : x.entry = e /\ x.synset = s) =>
            add_sense(db, e, s, None).err = "none"
(***************************************************************************)
(* C40: the synsets a split leaves (SpecSplit).                            *)
(***************************************************************************)
\* C40: when split_synset has returned, the synset it split and every
\* synset it created own at least one sense each.
C40_SplitLeavesNoEmptySynset ==
    (last.op = "split_synset" /\ last.err = "none") =>
        \A s \in {last.args.synset_id}
                  \cup (SynsetIds(db) \ SynsetIds(last.pre)) :
            SensesOfSynset(db, s) # {}

====
